---- MODULE Spec2Model ----
(***************************************************************************)
(* Project / task service layer of the Distributed Task Management System. *)
(*                                                                         *)
(* The state is the content of the Project and Task collections.  Every    *)
(* service function (backend/src/services/*.service.js) is an operator     *)
(* that maps the stored state and the call's arguments to the result kind  *)
(* and the stored state after the call; every action is one request        *)
(* handled from start to end (requests are handled one after the other).   *)
(* Timestamps are abstracted to "set" (Date) or Null; title, description   *)
(* and dueDate are plain values that Object.assign copies exactly like     *)
(* priority, which stands for them.                                        *)
(***************************************************************************)
EXTENDS Naturals, Sequences, FiniteSets, TLC

VARIABLES projects, tasks, nextProjectId, nextTaskId, last, deleting, inflight, side

vars == <<projects, tasks, nextProjectId, nextTaskId, last, deleting, inflight, side>>

(* ------------------------------ bounds --------------------------------- *)
\* number of project documents ever created (ObjectIds are never reused)
MaxProjects == 1
\* number of task documents ever created
MaxTasks == 1

ProjectIds == 1..MaxProjects
TaskIds == 1..MaxTasks

(* --------------------------- value domains ----------------------------- *)
\* a key that is not present in a request body / an undefined value
Absent == "absent"
\* JavaScript null (the schema default of assignedTo and completedAt)
Null == "null"
\* an abstract non-null Date
Date == "date"

\* registered users (documents of the User collection) and their global role
Users == {"ua", "um", "ux"}
\* a well-formed ObjectId that names no user document
GhostUser == "ug"
UserIds == Users \cup {GhostUser}

globalRole(u) ==
  CASE u = "ua" -> "ADMIN"
    [] u = "um" -> "MANAGER"
    [] OTHER -> "USER"

userExists(u) == u \in Users

ProjectRoles == {"OWNER", "MANAGER", "MEMBER"}
ProjectStatuses == {"ACTIVE", "ARCHIVED"}
Statuses == {"TODO", "IN_PROGRESS", "DONE"}
Priorities == {"LOW", "MEDIUM", "HIGH"}

(* ------------------------ sequence helpers ----------------------------- *)
\* Array.prototype.some over a roster
some(members, userId) ==
  \E i \in 1..Len(members) : members[i].userId = userId

\* Array.prototype.find(...)?.role : role of the first entry of userId
findRole(members, userId) ==
  IF some(members, userId)
    THEN members[CHOOSE i \in 1..Len(members) :
                   /\ members[i].userId = userId
                   /\ \A j \in 1..(i - 1) : members[j].userId # userId].role
    ELSE Absent

\* Array.prototype.filter(m => m.userId !== memberId)
RECURSIVE filterOut(_, _)
filterOut(members, memberId) ==
  IF members = <<>> THEN <<>>
  ELSE IF Head(members).userId = memberId
    THEN filterOut(Tail(members), memberId)
    ELSE <<Head(members)>> \o filterOut(Tail(members), memberId)

\* member.role = role on the first entry of memberId
setFirstRole(members, memberId, role) ==
  LET k == CHOOSE i \in 1..Len(members) :
             /\ members[i].userId = memberId
             /\ \A j \in 1..(i - 1) : members[j].userId # memberId
  IN [members EXCEPT ![k].role = role]

(* ------------------------ project service ------------------------------ *)
\* Project.findById(projectId) finds a document
hasProject(ps, projectId) == projectId \in DOMAIN ps

Outcome(res, ps, ts) == [res |-> res, projects |-> ps, tasks |-> ts]

\* the gate with the role given to a newly registered user let through
canCreateProjectAnyRole(role) == role \in {"ADMIN", "MANAGER", "USER"}

\* the global-role gate of createProject, on the role stored for the user
canCreateProject(role) == role \in {"ADMIN", "MANAGER"}

\* data is the validated body {name, description}: neither is read again
createProject(ps, ts, newId, userId) ==
  IF ~userExists(userId) THEN Outcome("NotFound", ps, ts)
  ELSE IF ~canCreateProject(globalRole(userId))
    THEN Outcome("Forbidden", ps, ts)
  ELSE Outcome("ok",
         ps @@ (newId :> [ownerId |-> userId,
                          status |-> "ACTIVE",
                          members |-> <<[userId |-> userId, role |-> "OWNER"]>>]),
         ts)

\* the test widened by the MANAGER row of accessMap, which lists "edit"
isOwnerOrAdminOrManager(project, userId, userRole) ==
  LET isOwner == project.ownerId = userId
      isAdmin == userRole = "ADMIN"
  IN isOwner \/ isAdmin \/ findRole(project.members, userId) = "MANAGER"

\* the isOwner / isAdmin test of updateProject and deleteProject
isOwnerOrAdmin(project, userId, userRole) ==
  LET isOwner == project.ownerId = userId
      isAdmin == userRole = "ADMIN"
  IN isOwner \/ isAdmin

\* data is the validated body; status stands for the three optional fields
updateProject(ps, ts, projectId, userId, userRole, data) ==
  LET project == ps[projectId] IN
  IF ~hasProject(ps, projectId) THEN Outcome("NotFound", ps, ts)
  ELSE
    IF ~isOwnerOrAdmin(project, userId, userRole) THEN Outcome("Forbidden", ps, ts)
    ELSE Outcome("ok",
           [ps EXCEPT ![projectId].status =
              IF data.status = Absent THEN @ ELSE data.status],
           ts)

\* Task.deleteMany({ projectId })
deleteMany(ts, projectId) ==
  [t \in {x \in DOMAIN ts : ts[x].projectId # projectId} |-> ts[t]]

\* Project.findByIdAndDelete
removeProjectDoc(ps, projectId) ==
  [p \in (DOMAIN ps) \ {projectId} |-> ps[p]]

deleteProject(ps, ts, projectId, userId, userRole) ==
  LET project == ps[projectId] IN
  IF ~hasProject(ps, projectId) THEN Outcome("NotFound", ps, ts)
  ELSE
    IF ~isOwnerOrAdmin(project, userId, userRole) THEN Outcome("Forbidden", ps, ts)
    ELSE Outcome("ok", removeProjectDoc(ps, projectId), deleteMany(ts, projectId))

\* deleteProject whose first write removes the project document
deleteProjectTasksDocFirst(ps, ts, projectId, userId, userRole) ==
  LET project == ps[projectId] IN
  IF ~hasProject(ps, projectId) THEN Outcome("NotFound", ps, ts)
  ELSE
    IF ~isOwnerOrAdmin(project, userId, userRole) THEN Outcome("Forbidden", ps, ts)
    ELSE Outcome("ok", removeProjectDoc(ps, projectId), ts)

\* deleteProject up to and including its first write: the checks, then
\* await Task.deleteMany({ projectId })
deleteProjectTasks(ps, ts, projectId, userId, userRole) ==
  LET project == ps[projectId] IN
  IF ~hasProject(ps, projectId) THEN Outcome("NotFound", ps, ts)
  ELSE
    IF ~isOwnerOrAdmin(project, userId, userRole) THEN Outcome("Forbidden", ps, ts)
    ELSE Outcome("ok", ps, deleteMany(ts, projectId))

\* the rest of deleteProject: await Project.findByIdAndDelete(projectId)
deleteProjectDoc(ps, ts, projectId) ==
  Outcome("ok", removeProjectDoc(ps, projectId), ts)

\* the condition with the project role OWNER let through as well
canManageOwnerRole(project, userId, userRole) ==
  LET isOwner == project.ownerId = userId
      memberRole == findRole(project.members, userId)
  IN userRole = "ADMIN" \/ isOwner \/ memberRole = "MANAGER" \/ memberRole = "OWNER"

\* the canManage condition shared by the three membership operations
canManage(project, userId, userRole) ==
  LET isOwner == project.ownerId = userId
      memberRole == findRole(project.members, userId)
  IN userRole = "ADMIN" \/ isOwner \/ memberRole = "MANAGER"

\* addProjectMember without the "already member" test
addProjectMemberNoConflict(ps, ts, projectId, userId, userRole, newMemberId, role) ==
  LET project == ps[projectId] IN
  IF ~hasProject(ps, projectId) THEN Outcome("NotFound", ps, ts)
  ELSE IF ~canManage(project, userId, userRole) THEN Outcome("Forbidden", ps, ts)
  ELSE IF ~userExists(newMemberId) THEN Outcome("NotFound", ps, ts)
  ELSE Outcome("ok",
         [ps EXCEPT ![projectId].members =
            Append(@, [userId |-> newMemberId, role |-> role])],
         ts)

addProjectMember(ps, ts, projectId, userId, userRole, newMemberId, role) ==
  LET project == ps[projectId] IN
  IF ~hasProject(ps, projectId) THEN Outcome("NotFound", ps, ts)
  ELSE IF ~canManage(project, userId, userRole) THEN Outcome("Forbidden", ps, ts)
  ELSE IF ~userExists(newMemberId) THEN Outcome("NotFound", ps, ts)
  ELSE IF some(project.members, newMemberId) THEN Outcome("Conflict", ps, ts)
  ELSE Outcome("ok",
         [ps EXCEPT ![projectId].members =
            Append(@, [userId |-> newMemberId, role |-> role])],
         ts)

\* removeProjectMember without the "cannot remove owner" test
removeProjectMemberAnyone(ps, ts, projectId, userId, userRole, memberId) ==
  LET project == ps[projectId] IN
  IF ~hasProject(ps, projectId) THEN Outcome("NotFound", ps, ts)
  ELSE IF ~canManage(project, userId, userRole) THEN Outcome("Forbidden", ps, ts)
  ELSE Outcome("ok",
         [ps EXCEPT ![projectId].members = filterOut(@, memberId)],
         ts)

removeProjectMember(ps, ts, projectId, userId, userRole, memberId) ==
  LET project == ps[projectId] IN
  IF ~hasProject(ps, projectId) THEN Outcome("NotFound", ps, ts)
  ELSE IF ~canManage(project, userId, userRole) THEN Outcome("Forbidden", ps, ts)
  ELSE IF project.ownerId = memberId THEN Outcome("BadRequest", ps, ts)
  ELSE Outcome("ok",
         [ps EXCEPT ![projectId].members = filterOut(@, memberId)],
         ts)

updateProjectMember(ps, ts, projectId, userId, userRole, memberId, role) ==
  LET project == ps[projectId] IN
  IF ~hasProject(ps, projectId) THEN Outcome("NotFound", ps, ts)
  ELSE IF ~canManage(project, userId, userRole) THEN Outcome("Forbidden", ps, ts)
  ELSE IF ~some(project.members, memberId) THEN Outcome("NotFound", ps, ts)
  ELSE IF project.ownerId = memberId THEN Outcome("BadRequest", ps, ts)
  ELSE Outcome("ok",
         [ps EXCEPT ![projectId].members = setFirstRole(@, memberId, role)],
         ts)

(* -------------------------- task service ------------------------------- *)
\* the table with the direct step TODO -> DONE added
validTransitionsDirectDone(status) ==
  CASE status = "TODO" -> {"IN_PROGRESS", "DONE"}
    [] status = "IN_PROGRESS" -> {"TODO", "DONE"}
    [] status = "DONE" -> {"TODO", "IN_PROGRESS"}
    [] OTHER -> {}

validTransitions(status) ==
  CASE status = "TODO" -> {"IN_PROGRESS"}
    [] status = "IN_PROGRESS" -> {"TODO", "DONE"}
    [] status = "DONE" -> {"TODO", "IN_PROGRESS"}
    [] OTHER -> {}

\* TRUE when validateStatusTransition returns, FALSE when it throws badRequest
validateStatusTransition(currentStatus, newStatus) ==
  newStatus \in validTransitions(currentStatus)

\* Task.findById(taskId) finds a document
hasTask(ts, taskId) == taskId \in DOMAIN ts

\* the access test with the assignee left out
checkTaskAccessNoAssignee(ps, ts, taskId, userId, userRole) ==
  IF ~hasTask(ts, taskId) THEN "NotFound"
  ELSE IF ~hasProject(ps, ts[taskId].projectId) THEN "NotFound"
  ELSE LET task == ts[taskId]
           project == ps[task.projectId]
           isOwner == project.ownerId = userId
           isMember == some(project.members, userId)
           isAdmin == userRole = "ADMIN"
       IN IF ~isOwner /\ ~isMember /\ ~isAdmin THEN "Forbidden" ELSE "ok"

\* the access test with the task's creator let through as well
checkTaskAccessCreator(ps, ts, taskId, userId, userRole) ==
  IF ~hasTask(ts, taskId) THEN "NotFound"
  ELSE IF ~hasProject(ps, ts[taskId].projectId) THEN "NotFound"
  ELSE LET task == ts[taskId]
           project == ps[task.projectId]
           isOwner == project.ownerId = userId
           isMember == some(project.members, userId)
           isAdmin == userRole = "ADMIN"
           isAssignee == task.assignedTo = userId
           isCreator == task.createdBy = userId
       IN IF ~isOwner /\ ~isMember /\ ~isAdmin /\ ~isAssignee /\ ~isCreator
            THEN "Forbidden" ELSE "ok"

\* checkTaskAccess: "ok", or the kind of the error it throws
checkTaskAccess(ps, ts, taskId, userId, userRole) ==
  IF ~hasTask(ts, taskId) THEN "NotFound"
  ELSE IF ~hasProject(ps, ts[taskId].projectId) THEN "NotFound"
  ELSE LET task == ts[taskId]
           project == ps[task.projectId]
           isOwner == project.ownerId = userId
           isMember == some(project.members, userId)
           isAdmin == userRole = "ADMIN"
           isAssignee == task.assignedTo = userId
       IN IF ~isOwner /\ ~isMember /\ ~isAdmin /\ ~isAssignee
            THEN "Forbidden" ELSE "ok"

\* createTaskSchema.parse: zod keeps the declared keys (priority defaults to
\* MEDIUM) and drops every other key of the body
createTaskSchema(body) ==
  [priority |-> IF body.priority = Absent THEN "MEDIUM" ELSE body.priority,
   assignedTo |-> body.assignedTo]

\* the role test with every roster member let through
canCreateTaskAnyMember(project, userId, userRole) ==
  LET isOwner == project.ownerId = userId
      isAdmin == userRole = "ADMIN"
  IN isOwner \/ isAdmin \/ some(project.members, userId)

\* the role test of createTask
canCreateTask(project, userId, userRole) ==
  LET isOwner == project.ownerId = userId
      memberRole == findRole(project.members, userId)
      isAdmin == userRole = "ADMIN"
  IN ~(~isOwner /\ ~isAdmin /\ memberRole # "OWNER" /\ memberRole # "MANAGER")

\* the check without the roster test
checkNewAssigneeExistsOnly(project, assignedTo) ==
  IF ~userExists(assignedTo) THEN "NotFound" ELSE "ok"

\* the check of data.assignedTo in createTask: "ok" or the error kind
checkNewAssignee(project, assignedTo) ==
  IF ~userExists(assignedTo) THEN "NotFound"
  ELSE IF ~some(project.members, assignedTo) THEN "BadRequest"
  ELSE "ok"

\* a field that is undefined or null is falsy
truthy(v) == v # Absent /\ v # Null

createTask(ps, ts, newId, projectId, userId, userRole, data) ==
  LET project == ps[projectId] IN
  IF ~hasProject(ps, projectId) THEN Outcome("NotFound", ps, ts)
  ELSE IF ~canCreateTask(project, userId, userRole) THEN Outcome("Forbidden", ps, ts)
  ELSE IF truthy(data.assignedTo) /\ checkNewAssignee(project, data.assignedTo) # "ok"
    THEN Outcome(checkNewAssignee(project, data.assignedTo), ps, ts)
  ELSE Outcome("ok", ps,
         ts @@ (newId :> [projectId |-> projectId,
                          createdBy |-> userId,
                          status |-> "TODO",
                          priority |-> data.priority,
                          assignedTo |-> IF truthy(data.assignedTo)
                                           THEN data.assignedTo ELSE Null,
                          completedAt |-> Null,
                          comments |-> <<>>]))

\* the general edit condition of updateTask
canUpdate(project, task, userId, userRole) ==
  LET isOwner == project.ownerId = userId
      isAdmin == userRole = "ADMIN"
      isAssignee == task.assignedTo = userId
      memberRole == findRole(project.members, userId)
  IN isAdmin \/ isOwner \/ isAssignee \/ memberRole = "OWNER" \/ memberRole = "MANAGER"

\* the status condition with the assignee left out
canChangeStatusNoAssignee(project, task, userId, userRole) ==
  LET isOwner == project.ownerId = userId
      isAdmin == userRole = "ADMIN"
      memberRole == findRole(project.members, userId)
  IN isAdmin \/ isOwner \/ memberRole = "OWNER" \/ memberRole = "MANAGER"

\* the condition of the status branch of updateTask (the same expression as
\* canUpdate, evaluated again)
canChangeStatus(project, task, userId, userRole) ==
  LET isOwner == project.ownerId = userId
      isAdmin == userRole = "ADMIN"
      isAssignee == task.assignedTo = userId
      memberRole == findRole(project.members, userId)
  IN isAdmin \/ isOwner \/ isAssignee \/ memberRole = "OWNER" \/ memberRole = "MANAGER"

\* the guard without the comparison with the stored status
statusBranchAnyStatus(task, data) == truthy(data.status)

\* the guard of the status branch of updateTask
statusBranch(task, data) == truthy(data.status) /\ data.status # task.status

\* data after the status branch: completedAt is written into the patch
withCompletedAt(task, data) ==
  IF statusBranch(task, data)
    THEN [data EXCEPT !.completedAt = IF data.status = "DONE" THEN Date ELSE Null]
    ELSE data

\* Object.assign(task, data): every key present in data overwrites the field.
\* A body that carries the keys projectId and createdBy holds each as the set
\* of its values: empty when the key is not there, else the one value.
objectAssign(task, data) ==
  LET set(new, old) == IF new = Absent THEN old ELSE new
      one(new, old) == IF new = {} THEN old ELSE CHOOSE x \in new : TRUE
      assigned == [task EXCEPT !.status = set(data.status, @),
                               !.priority = set(data.priority, @),
                               !.assignedTo = set(data.assignedTo, @),
                               !.completedAt = set(data.completedAt, @)]
  IN IF "projectId" \in DOMAIN data
       THEN [assigned EXCEPT !.projectId = one(data.projectId, @),
                             !.createdBy = one(data.createdBy, @)]
       ELSE assigned

\* updateTask that copies the patch into the task before the assignee check
\* and saves what it has when that check throws
updateTaskAssignFirst(ps, ts, taskId, userId, userRole, data) ==
  LET access == checkTaskAccess(ps, ts, taskId, userId, userRole)
      task == ts[taskId]
      project == ps[task.projectId]
      assigned == [ts EXCEPT ![taskId] = objectAssign(task, withCompletedAt(task, data))]
  IN
  IF access # "ok" THEN Outcome(access, ps, ts)
  ELSE IF ~canUpdate(project, task, userId, userRole) THEN Outcome("Forbidden", ps, ts)
  ELSE IF statusBranch(task, data) /\ ~validateStatusTransition(task.status, data.status)
    THEN Outcome("BadRequest", ps, ts)
  ELSE IF /\ truthy(data.assignedTo)
          /\ data.assignedTo # task.assignedTo
          /\ checkNewAssignee(project, data.assignedTo) # "ok"
    THEN Outcome(checkNewAssignee(project, data.assignedTo), ps,
                 [assigned EXCEPT ![taskId].assignedTo = task.assignedTo])
  ELSE Outcome("ok", ps, assigned)

updateTask(ps, ts, taskId, userId, userRole, data) ==
  LET access == checkTaskAccess(ps, ts, taskId, userId, userRole)
      task == ts[taskId]
      project == ps[task.projectId]
  IN
  IF access # "ok" THEN Outcome(access, ps, ts)
  ELSE IF ~canUpdate(project, task, userId, userRole) THEN Outcome("Forbidden", ps, ts)
  ELSE IF statusBranch(task, data) /\ ~canChangeStatus(project, task, userId, userRole)
    THEN Outcome("Forbidden", ps, ts)
  ELSE IF statusBranch(task, data) /\ ~validateStatusTransition(task.status, data.status)
    THEN Outcome("BadRequest", ps, ts)
  ELSE IF /\ truthy(data.assignedTo)
          /\ data.assignedTo # task.assignedTo
          /\ checkNewAssignee(project, data.assignedTo) # "ok"
    THEN Outcome(checkNewAssignee(project, data.assignedTo), ps, ts)
  ELSE Outcome("ok", ps,
         [ts EXCEPT ![taskId] = objectAssign(task, withCompletedAt(task, data))])

\* updateTaskStatus: the patch holds the status alone
updateTaskStatus(ps, ts, taskId, userId, userRole, status) ==
  updateTask(ps, ts, taskId, userId, userRole,
             [status |-> status, priority |-> Absent,
              assignedTo |-> Absent, completedAt |-> Absent])

\* the condition with every roster member let through
canAssignAnyMember(project, userId, userRole) ==
  LET isOwner == project.ownerId = userId
      isAdmin == userRole = "ADMIN"
  IN isAdmin \/ isOwner \/ some(project.members, userId)

canAssign(project, userId, userRole) ==
  LET isOwner == project.ownerId = userId
      isAdmin == userRole = "ADMIN"
      memberRole == findRole(project.members, userId)
  IN isAdmin \/ isOwner \/ memberRole = "OWNER" \/ memberRole = "MANAGER"

\* assignTask without the roster test of the target
assignTaskAnyUser(ps, ts, taskId, userId, userRole, assignedTo) ==
  LET access == checkTaskAccess(ps, ts, taskId, userId, userRole)
      task == ts[taskId]
      project == ps[task.projectId]
  IN
  IF access # "ok" THEN Outcome(access, ps, ts)
  ELSE IF ~canAssign(project, userId, userRole) THEN Outcome("Forbidden", ps, ts)
  ELSE IF ~userExists(assignedTo) THEN Outcome("NotFound", ps, ts)
  ELSE Outcome("ok", ps, [ts EXCEPT ![taskId].assignedTo = assignedTo])

assignTask(ps, ts, taskId, userId, userRole, assignedTo) ==
  LET access == checkTaskAccess(ps, ts, taskId, userId, userRole)
      task == ts[taskId]
      project == ps[task.projectId]
  IN
  IF access # "ok" THEN Outcome(access, ps, ts)
  ELSE IF ~canAssign(project, userId, userRole) THEN Outcome("Forbidden", ps, ts)
  ELSE IF checkNewAssignee(project, assignedTo) # "ok"
    THEN Outcome(checkNewAssignee(project, assignedTo), ps, ts)
  ELSE Outcome("ok", ps, [ts EXCEPT ![taskId].assignedTo = assignedTo])

\* the condition with the project role MANAGER let through as well
canDeleteManager(project, task, userId, userRole) ==
  LET isOwner == project.ownerId = userId
      isAdmin == userRole = "ADMIN"
      isCreator == task.createdBy = userId
      memberRole == findRole(project.members, userId)
  IN isAdmin \/ isOwner \/ isCreator \/ memberRole = "OWNER" \/ memberRole = "MANAGER"

\* the condition with the global role left out
canDeleteNoAdmin(project, task, userId, userRole) ==
  LET isOwner == project.ownerId = userId
      isCreator == task.createdBy = userId
      memberRole == findRole(project.members, userId)
  IN isOwner \/ isCreator \/ memberRole = "OWNER"

canDelete(project, task, userId, userRole) ==
  LET isOwner == project.ownerId = userId
      isAdmin == userRole = "ADMIN"
      isCreator == task.createdBy = userId
      memberRole == findRole(project.members, userId)
  IN isAdmin \/ isOwner \/ isCreator \/ memberRole = "OWNER"

deleteTask(ps, ts, taskId, userId, userRole) ==
  LET access == checkTaskAccess(ps, ts, taskId, userId, userRole)
      task == ts[taskId]
      project == ps[task.projectId]
  IN
  IF access # "ok" THEN Outcome(access, ps, ts)
  ELSE IF ~canDelete(project, task, userId, userRole) THEN Outcome("Forbidden", ps, ts)
  ELSE Outcome("ok", ps, [t \in (DOMAIN ts) \ {taskId} |-> ts[t]])

\* the project access test of getProjectTasks and getProjectTaskStats:
\* "ok", or the kind of the error it throws
checkProjectView(ps, projectId, userId, userRole) ==
  IF ~hasProject(ps, projectId) THEN "NotFound"
  ELSE LET project == ps[projectId]
           isOwner == project.ownerId = userId
           isMember == some(project.members, userId)
           isAdmin == userRole = "ADMIN"
       IN IF ~isOwner /\ ~isMember /\ ~isAdmin THEN "Forbidden" ELSE "ok"

\* the reads store nothing; of their answers only the kind is kept
getProjectTasks(ps, ts, projectId, userId, userRole) ==
  Outcome(checkProjectView(ps, projectId, userId, userRole), ps, ts)

getTaskById(ps, ts, taskId, userId, userRole) ==
  Outcome(checkTaskAccess(ps, ts, taskId, userId, userRole), ps, ts)

getProjectTaskStats(ps, ts, projectId, userId, userRole) ==
  Outcome(checkProjectView(ps, projectId, userId, userRole), ps, ts)

\* task.comments.push({ userId, text, createdAt }): a comment is its author
addTaskComment(ps, ts, taskId, userId, userRole) ==
  LET access == checkTaskAccess(ps, ts, taskId, userId, userRole) IN
  IF access # "ok" THEN Outcome(access, ps, ts)
  ELSE Outcome("ok", ps, [ts EXCEPT ![taskId].comments = Append(@, userId)])

(* ------------------------- paginated listings -------------------------- *)
\* .sort({ createdAt: -1 }): the documents, the one created last first (ids
\* are given in the order of creation)
RECURSIVE sortDesc(_)
sortDesc(ids) ==
  IF ids = {} THEN <<>>
  ELSE LET newest == CHOOSE x \in ids : \A y \in ids : y <= x
       IN <<newest>> \o sortDesc(ids \ {newest})

\* .skip(skip).limit(limit)
skipLimit(docs, skip, limit) ==
  [i \in 1..(IF Len(docs) <= skip THEN 0
             ELSE IF Len(docs) - skip < limit THEN Len(docs) - skip ELSE limit)
     |-> docs[skip + i]]

\* Math.floor(total / limit)
mathFloor(total, limit) == total \div limit
\* Math.ceil(total / limit)
mathCeil(total, limit) ==
  IF total % limit = 0 THEN total \div limit ELSE (total \div limit) + 1

\* countDocuments(query), find(query).skip(skip).limit(limit).sort(...) and
\* the answer built of them; ids are the documents that match the query
paginated(ids, page, limit) ==
  LET skip == (page - 1) * limit
      total == Cardinality(ids)
  IN [res |-> "ok",
      data |-> skipLimit(sortDesc(ids), skip, limit),
      pagination |-> [page |-> page, limit |-> limit, total |-> total,
                      pages |-> mathCeil(total, limit)]]

\* the error answer of a listing
listingError(res, page, limit) ==
  [res |-> res, data |-> <<>>,
   pagination |-> [page |-> page, limit |-> limit, total |-> 0, pages |-> 0]]

\* getProjectTasks with its page and limit options and no filter
getProjectTasksPage(ps, ts, projectId, userId, userRole, page, limit) ==
  LET check == checkProjectView(ps, projectId, userId, userRole) IN
  IF check # "ok" THEN listingError(check, page, limit)
  ELSE paginated({t \in DOMAIN ts : ts[t].projectId = projectId}, page, limit)

getUserProjects(ps, userId, userRole, page, limit, status) ==
  LET query(p) ==
        IF userRole = "ADMIN" THEN ps[p].status = status
        ELSE /\ ps[p].ownerId = userId \/ some(ps[p].members, userId)
             /\ ps[p].status = status
  IN paginated({p \in DOMAIN ps : query(p)}, page, limit)

(* ------------------------------ requests ------------------------------- *)
\* the role carried by the requester's token is the role stored for the user
tokenRole(u) == globalRole(u)

\* bodies accepted by updateProjectSchema
ProjectPatches == [status : {Absent} \cup ProjectStatuses]

\* bodies sent to POST /projects/:projectId/tasks (status and completedAt are
\* keys the schema does not declare)
TaskBodies ==
  {[priority |-> pr, assignedTo |-> a, status |-> x[1], completedAt |-> x[2]] :
     pr \in {Absent, "HIGH"}, a \in {Absent, Null} \cup UserIds,
     x \in {<<Absent, Absent>>, <<"DONE", Date>>}}

\* bodies accepted by updateTaskSchema.parse on PUT /projects/:projectId/tasks/:taskId;
\* the route hands req.body itself to the controller, so a key the schema does
\* not declare (completedAt) reaches updateTask
AllTaskPatches ==
  [status : {Absent} \cup Statuses,
   priority : {Absent, "HIGH"},
   assignedTo : {Absent, Null} \cup UserIds,
   completedAt : {Absent, Null, Date}]

\* number of keys a request body carries
MaxPatchKeys == 2

TaskPatches ==
  {d \in AllTaskPatches :
     Cardinality({f \in DOMAIN d : d[f] # Absent}) <= MaxPatchKeys}

\* bodies of PUT /projects/:projectId/tasks/:taskId that carry projectId and
\* createdBy, keys that updateTaskSchema does not declare: any project id,
\* also one of no project, and any user id
RawTaskPatches ==
  [status : {Absent},
   priority : {Absent, "HIGH"},
   assignedTo : {Absent},
   completedAt : {Absent},
   projectId : {{}} \cup {{p} : p \in 1..(MaxProjects + 1)},
   createdBy : {{}} \cup {{u} : u \in UserIds}]

\* the body that holds the status alone
StatusOnly(status) ==
  [status |-> status, priority |-> Absent, assignedTo |-> Absent, completedAt |-> Absent]

\* the last request handled: the operation, the status key of its body (Absent
\* for an operation without one) and the kind of its result
Result(op, status, res) == [op |-> op, status |-> status, res |-> res]

(* ------------------- cache and job queue utilities --------------------- *)
\* side holds the module state of utils/redis.js (redisClient,
\* isRedisConnected) and of the job utilities (notificationQueue, taskQueue,
\* isInitialized), the keys stored in Redis (cache), the jobs added to the
\* queues (jobs), the projects whose caches a request asked to invalidate
\* (invalidated), the notification jobs a request asked for (notified) and
\* the outcome of the last utility call (ret).  A client call is a command
\* sent to Redis or to a queue; it resolves or it rejects.
CacheKinds == {"projectTasks", "projectStats", "task"}

\* cacheKeys
cacheKeys(kind, id) == [kind |-> kind, id |-> id]

CacheKeys == {cacheKeys(kind, id) : kind \in CacheKinds, id \in ProjectIds}

NotificationTypes == {"TASK_ASSIGNED", "TASK_STATUS_CHANGED"}
TaskJobTypes == {"TASK_CLEANUP"}

\* what a utility call did: how it ended, the value it returned (Absent for
\* undefined), the client calls it made, whether one of them rejected, the
\* store and the queues after it
Ran(outcome, value, clientCalls, rejected, cache, jobs) ==
  [outcome |-> outcome, value |-> value, clientCalls |-> clientCalls,
   rejected |-> rejected, cache |-> cache, jobs |-> jobs]

SideInit ==
  [redisClient |-> Null,
   isRedisConnected |-> FALSE,
   notificationQueue |-> Null,
   taskQueue |-> Null,
   isInitialized |-> FALSE,
   cache |-> {},
   jobs |-> {},
   invalidated |-> {},
   notified |-> {},
   ret |-> [fn |-> "none", outcome |-> "returned", value |-> Absent,
            clientCalls |-> 0, rejected |-> FALSE]]

isRedisAvailable(s) == s.isRedisConnected /\ s.redisClient # Null

\* catch (error) { console.warn(...); return value; }
catchRethrow(r, value) == r
catchAndWarn(r, value) ==
  IF r.outcome = "threw" THEN [r EXCEPT !.outcome = "returned", !.value = value] ELSE r

\* if (!isRedisAvailable()) return value;
unlessRedisUnavailable(s, value, body) ==
  IF ~isRedisAvailable(s) THEN Ran("returned", value, 0, FALSE, s.cache, s.jobs) ELSE body

\* one awaited client call: rejects when it is the call number failAt,
\* otherwise resolves to value and leaves the store cache
clientCall(s, n, failAt, value, cache) ==
  IF failAt = n
    THEN Ran("threw", Absent, n, TRUE, s.cache, s.jobs)
    ELSE Ran("returned", value, n, FALSE, cache, s.jobs)

getCached(s, key, failAt) ==
  catchAndWarn(
    unlessRedisUnavailable(s, Null,
      clientCall(s, 1, failAt, IF key \in s.cache THEN "data" ELSE Null, s.cache)),
    Null)

setCached(s, key, failAt) ==
  catchAndWarn(
    unlessRedisUnavailable(s, Absent,
      clientCall(s, 1, failAt, Absent, s.cache \cup {key})),
    Absent)

deleteCached(s, key, failAt) ==
  catchAndWarn(
    unlessRedisUnavailable(s, Absent,
      clientCall(s, 1, failAt, Absent, s.cache \ {key})),
    Absent)

deleteMultipleCached(s, keys, failAt) ==
  catchAndWarn(
    unlessRedisUnavailable(s, Absent,
      IF keys = {}
        THEN Ran("returned", Absent, 0, FALSE, s.cache, s.jobs)
        ELSE clientCall(s, 1, failAt, Absent, s.cache \ keys)),
    Absent)

\* client.keys(`tasks:project:${projectId}*`)
keysOfProject(cache, projectId) ==
  {k \in cache : k.kind = "projectTasks" /\ k.id = projectId}

invalidateProjectCaches(s, projectId, failAt) ==
  catchAndWarn(
    unlessRedisUnavailable(s, Absent,
      LET found == clientCall(s, 1, failAt, Absent, s.cache)
          keys == keysOfProject(s.cache, projectId)
                    \cup {cacheKeys("projectStats", projectId)}
          deleted == deleteMultipleCached(s, keys, IF failAt = 2 THEN 1 ELSE 0)
      IN IF found.outcome = "threw" THEN found
         ELSE [deleted EXCEPT !.clientCalls = 1 + deleted.clientCalls]),
    Absent)

\* if (!queue || !isInitialized) return;
unlessQueueUnavailable(queue, initialized, s, body) ==
  IF queue = Null \/ ~initialized
    THEN Ran("returned", Absent, 0, FALSE, s.cache, s.jobs)
    ELSE body

queueAdd(s, name, type, failAt) ==
  IF failAt = 1
    THEN Ran("threw", Absent, 1, TRUE, s.cache, s.jobs)
    ELSE Ran("returned", Absent, 1, FALSE, s.cache,
             s.jobs \cup {[queue |-> name, type |-> type]})

addNotificationJob(s, type, failAt) ==
  catchAndWarn(
    unlessQueueUnavailable(s.notificationQueue, s.isInitialized, s,
      queueAdd(s, "notifications", type, failAt)),
    Absent)

addTaskJob(s, type, failAt) ==
  catchAndWarn(
    unlessQueueUnavailable(s.taskQueue, s.isInitialized, s,
      queueAdd(s, "tasks", type, failAt)),
    Absent)

\* the module state after a utility call fn that did r
afterCall(s, fn, r) ==
  [s EXCEPT !.cache = r.cache,
            !.jobs = r.jobs,
            !.ret = [fn |-> fn, outcome |-> r.outcome, value |-> r.value,
                     clientCalls |-> r.clientCalls, rejected |-> r.rejected]]

CreateProject(u) ==
  \E r \in {createProject(projects, tasks, nextProjectId, u)} :
  /\ r.res = "ok" => nextProjectId <= MaxProjects
  /\ projects' = r.projects
  /\ tasks' = r.tasks
  /\ nextProjectId' = IF r.res = "ok" THEN nextProjectId + 1 ELSE nextProjectId
  /\ last' = Result("createProject", Absent, r.res)
  /\ UNCHANGED <<nextTaskId, deleting, inflight, side>>

UpdateProject(u, p, data) ==
  \E r \in {updateProject(projects, tasks, p, u, tokenRole(u), data)} :
  /\ projects' = r.projects
  /\ tasks' = r.tasks
  /\ last' = Result("updateProject", Absent, r.res)
  /\ UNCHANGED <<nextProjectId, nextTaskId, deleting, inflight, side>>

DeleteProject(u, p) ==
  \E r \in {deleteProject(projects, tasks, p, u, tokenRole(u))} :
  /\ projects' = r.projects
  /\ tasks' = r.tasks
  /\ last' = Result("deleteProject", Absent, r.res)
  /\ UNCHANGED <<nextProjectId, nextTaskId, deleting, inflight, side>>

AddProjectMember(u, p, newMemberId, role) ==
  \E r \in {addProjectMember(projects, tasks, p, u, tokenRole(u), newMemberId, role)} :
  /\ projects' = r.projects
  /\ tasks' = r.tasks
  /\ last' = Result("addProjectMember", Absent, r.res)
  /\ UNCHANGED <<nextProjectId, nextTaskId, deleting, inflight, side>>

RemoveProjectMember(u, p, memberId) ==
  \E r \in {removeProjectMember(projects, tasks, p, u, tokenRole(u), memberId)} :
  /\ projects' = r.projects
  /\ tasks' = r.tasks
  /\ last' = Result("removeProjectMember", Absent, r.res)
  /\ UNCHANGED <<nextProjectId, nextTaskId, deleting, inflight, side>>

UpdateProjectMember(u, p, memberId, role) ==
  \E r \in {updateProjectMember(projects, tasks, p, u, tokenRole(u), memberId, role)} :
  /\ projects' = r.projects
  /\ tasks' = r.tasks
  /\ last' = Result("updateProjectMember", Absent, r.res)
  /\ UNCHANGED <<nextProjectId, nextTaskId, deleting, inflight, side>>

CreateTask(u, p, body) ==
  \E r \in {createTask(projects, tasks, nextTaskId, p, u, tokenRole(u),
                      createTaskSchema(body))} :
  /\ r.res = "ok" => nextTaskId <= MaxTasks
  /\ projects' = r.projects
  /\ tasks' = r.tasks
  /\ nextTaskId' = IF r.res = "ok" THEN nextTaskId + 1 ELSE nextTaskId
  /\ last' = Result("createTask", Absent, r.res)
  /\ UNCHANGED <<nextProjectId, deleting, inflight, side>>

UpdateTask(u, t, data) ==
  \E r \in {updateTask(projects, tasks, t, u, tokenRole(u), data)} :
  /\ projects' = r.projects
  /\ tasks' = r.tasks
  /\ last' = Result("updateTask", data.status, r.res)
  /\ UNCHANGED <<nextProjectId, nextTaskId, deleting, inflight, side>>

UpdateTaskStatus(u, t, status) ==
  \E r \in {updateTaskStatus(projects, tasks, t, u, tokenRole(u), status)} :
  /\ projects' = r.projects
  /\ tasks' = r.tasks
  /\ last' = Result("updateTaskStatus", status, r.res)
  /\ UNCHANGED <<nextProjectId, nextTaskId, deleting, inflight, side>>

AssignTask(u, t, assignedTo) ==
  \E r \in {assignTask(projects, tasks, t, u, tokenRole(u), assignedTo)} :
  /\ projects' = r.projects
  /\ tasks' = r.tasks
  /\ last' = Result("assignTask", Absent, r.res)
  /\ UNCHANGED <<nextProjectId, nextTaskId, deleting, inflight, side>>

DeleteTask(u, t) ==
  \E r \in {deleteTask(projects, tasks, t, u, tokenRole(u))} :
  /\ projects' = r.projects
  /\ tasks' = r.tasks
  /\ last' = Result("deleteTask", Absent, r.res)
  /\ UNCHANGED <<nextProjectId, nextTaskId, deleting, inflight, side>>

GetProjectTasks(u, p) ==
  \E r \in {getProjectTasks(projects, tasks, p, u, tokenRole(u))} :
  /\ projects' = r.projects
  /\ tasks' = r.tasks
  /\ last' = Result("getProjectTasks", Absent, r.res)
  /\ UNCHANGED <<nextProjectId, nextTaskId, deleting, inflight, side>>

GetTaskById(u, t) ==
  \E r \in {getTaskById(projects, tasks, t, u, tokenRole(u))} :
  /\ projects' = r.projects
  /\ tasks' = r.tasks
  /\ last' = Result("getTaskById", Absent, r.res)
  /\ UNCHANGED <<nextProjectId, nextTaskId, deleting, inflight, side>>

GetProjectTaskStats(u, p) ==
  \E r \in {getProjectTaskStats(projects, tasks, p, u, tokenRole(u))} :
  /\ projects' = r.projects
  /\ tasks' = r.tasks
  /\ last' = Result("getProjectTaskStats", Absent, r.res)
  /\ UNCHANGED <<nextProjectId, nextTaskId, deleting, inflight, side>>

\* number of comments a task ever gets
MaxComments == 1

AddTaskComment(u, t) ==
  \E r \in {addTaskComment(projects, tasks, t, u, tokenRole(u))} :
  /\ r.res = "ok" => Len(tasks[t].comments) < MaxComments
  /\ projects' = r.projects
  /\ tasks' = r.tasks
  /\ last' = Result("addTaskComment", Absent, r.res)
  /\ UNCHANGED <<nextProjectId, nextTaskId, deleting, inflight, side>>

(* ------------- specification of the project lifecycle ------------------ *)
\* Starts from the empty store.  Tasks are created with the plain body, so
\* that deleteProject has tasks to cascade over.
Init ==
  /\ projects = <<>>
  /\ tasks = <<>>
  /\ nextProjectId = 1
  /\ nextTaskId = 1
  /\ last = Result("none", Absent, "ok")
  /\ deleting = {}
  /\ inflight = {}
  /\ side = SideInit

PlainBody ==
  [priority |-> Absent, assignedTo |-> Absent, status |-> Absent, completedAt |-> Absent]

CreateProjectStep == \E u \in Users : CreateProject(u)
UpdateProjectStep ==
  \E u \in Users, p \in ProjectIds, data \in ProjectPatches : UpdateProject(u, p, data)
DeleteProjectStep == \E u \in Users, p \in ProjectIds : DeleteProject(u, p)
AddProjectMemberStep ==
  \E u \in Users, p \in ProjectIds, n \in UserIds, role \in ProjectRoles :
    AddProjectMember(u, p, n, role)
RemoveProjectMemberStep ==
  \E u \in Users, p \in ProjectIds, n \in UserIds : RemoveProjectMember(u, p, n)
UpdateProjectMemberStep ==
  \E u \in Users, p \in ProjectIds, n \in UserIds, role \in ProjectRoles :
    UpdateProjectMember(u, p, n, role)
CreatePlainTaskStep == \E u \in Users, p \in ProjectIds : CreateTask(u, p, PlainBody)

Next ==
  \/ CreateProjectStep
  \/ UpdateProjectStep
  \/ DeleteProjectStep
  \/ AddProjectMemberStep
  \/ RemoveProjectMemberStep
  \/ UpdateProjectMemberStep
  \/ CreatePlainTaskStep

Spec == Init /\ [][Next]_vars

(* --------------- specification of the task lifecycle ------------------- *)
\* Starts from a store that holds one project and no task.  The project is
\* one that createProject and addProjectMember produce: owned by a user who
\* may create projects, the owner first in the roster with role OWNER, then
\* at most one entry for each other user.
entry(userId, role) == [userId |-> userId, role |-> role]

optionalEntry(userId, roles) ==
  {<<>>} \cup {<<entry(userId, role)>> : role \in roles}

TaskRosters ==
  {<<entry("um", "OWNER")>> \o x \o a :
     x \in optionalEntry("ux", ProjectRoles), a \in optionalEntry("ua", {"MEMBER"})}
  \cup
  {<<entry("ua", "OWNER")>> \o m \o x :
     m \in optionalEntry("um", {"MEMBER"}), x \in optionalEntry("ux", {"MEMBER"})}

InitTask ==
  /\ \E members \in TaskRosters :
       projects = (1 :> [ownerId |-> members[1].userId,
                         status |-> "ACTIVE",
                         members |-> members])
  /\ tasks = <<>>
  /\ nextProjectId = 2
  /\ nextTaskId = 1
  /\ last = Result("none", Absent, "ok")
  /\ deleting = {}
  /\ inflight = {}
  /\ side = SideInit

CreateTaskStep ==
  \E u \in Users, p \in ProjectIds, body \in TaskBodies : CreateTask(u, p, body)
UpdateTaskStep ==
  \E u \in Users, t \in TaskIds, data \in TaskPatches : UpdateTask(u, t, data)
UpdateTaskStatusStep ==
  \E u \in Users, t \in TaskIds, status \in Statuses : UpdateTaskStatus(u, t, status)
AssignTaskStep ==
  \E u \in Users, t \in TaskIds, n \in UserIds : AssignTask(u, t, n)
DeleteTaskStep == \E u \in Users, t \in TaskIds : DeleteTask(u, t)

NextTask ==
  \/ CreateTaskStep
  \/ UpdateTaskStep
  \/ UpdateTaskStatusStep
  \/ AssignTaskStep
  \/ DeleteTaskStep
  \/ RemoveProjectMemberStep

SpecTask == InitTask /\ [][NextTask]_vars

(* ------------ specification of the access to stored tasks ------------- *)
\* Starts from a store that holds one project, owned by um with ux in the
\* roster, and the tasks that two createTask calls store in it: the first by
\* any user who may create it and with any assignee createTask accepts, the
\* second by the owner, unassigned.  The roster then changes under the tasks
\* (a member is given another role or removed) while the tasks are read,
\* edited, commented and deleted and the first task is moved between the
\* statuses.
MaxAccessTasks == 2

AccessTaskIds == 1..MaxAccessTasks

AccessRosters ==
  {<<entry("um", "OWNER"), entry("ux", role)>> : role \in {"MANAGER", "MEMBER"}}

AssignedBody(a) ==
  [priority |-> Absent, assignedTo |-> a, status |-> Absent, completedAt |-> Absent]

PriorityOnly ==
  [status |-> Absent, priority |-> "HIGH", assignedTo |-> Absent, completedAt |-> Absent]

\* the store after createTask by u with AssignedBody(a), then createTask by
\* the owner with the plain body for every further task
RECURSIVE createdTasks(_, _, _, _)
createdTasks(ps, u, a, n) ==
  IF n = 1
    THEN createTask(ps, <<>>, 1, 1, u, tokenRole(u), createTaskSchema(AssignedBody(a)))
    ELSE LET before == createdTasks(ps, u, a, n - 1)
         IN IF before.res # "ok" THEN before
            ELSE createTask(ps, before.tasks, n, 1, ps[1].ownerId,
                            tokenRole(ps[1].ownerId), createTaskSchema(PlainBody))

InitAccess ==
  /\ \E members \in AccessRosters :
       projects = (1 :> [ownerId |-> members[1].userId,
                         status |-> "ACTIVE",
                         members |-> members])
  /\ \E u \in Users, a \in {Absent} \cup Users :
       \E r \in {createdTasks(projects, u, a, MaxAccessTasks)} :
         r.res = "ok" /\ tasks = r.tasks
  /\ nextProjectId = 2
  /\ nextTaskId = MaxAccessTasks + 1
  /\ last = Result("none", Absent, "ok")
  /\ deleting = {}
  /\ inflight = {}
  /\ side = SideInit

AccessUpdateMemberStep ==
  \E u \in Users, n \in Users, role \in ProjectRoles : UpdateProjectMember(u, 1, n, role)
AccessRemoveMemberStep ==
  \E u \in Users, n \in Users : RemoveProjectMember(u, 1, n)
AccessEditTaskStep ==
  \E u \in Users, t \in AccessTaskIds : UpdateTask(u, t, PriorityOnly)
AccessMoveTaskStep ==
  \E u \in Users, status \in Statuses : UpdateTaskStatus(u, 1, status)
AccessDeleteTaskStep == \E u \in Users, t \in AccessTaskIds : DeleteTask(u, t)
GetTaskByIdStep == \E u \in Users, t \in AccessTaskIds : GetTaskById(u, t)
AddTaskCommentStep == \E u \in Users, t \in AccessTaskIds : AddTaskComment(u, t)
GetProjectTasksStep == \E u \in Users : GetProjectTasks(u, 1)
GetProjectTaskStatsStep == \E u \in Users : GetProjectTaskStats(u, 1)

NextAccess ==
  \/ AccessUpdateMemberStep
  \/ AccessRemoveMemberStep
  \/ AccessEditTaskStep
  \/ AccessMoveTaskStep
  \/ AccessDeleteTaskStep
  \/ GetTaskByIdStep
  \/ AddTaskCommentStep
  \/ GetProjectTasksStep
  \/ GetProjectTaskStatsStep

SpecAccess == InitAccess /\ [][NextAccess]_vars

(* ------------ specification of the requests of an ADMIN --------------- *)
\* Every request comes from the user whose global role is ADMIN; members
\* are added with and set to role MEMBER and task updates hold a status.  The start
\* is the start of the task lifecycle, with no task or with one task that a
\* createTask call of another user has stored, so that the ADMIN is owner,
\* member or neither of the project and assignee or not of a task that
\* someone else created.
Admin == "ua"

InitAdmin ==
  /\ \E members \in TaskRosters :
       projects = (1 :> [ownerId |-> members[1].userId,
                         status |-> "ACTIVE",
                         members |-> members])
  /\ \/ tasks = <<>> /\ nextTaskId = 1
     \/ \E u \in Users \ {Admin}, a \in {Absent} \cup Users :
          \E r \in {createTask(projects, <<>>, 1, 1, u, tokenRole(u),
                               createTaskSchema(AssignedBody(a)))} :
            r.res = "ok" /\ tasks = r.tasks /\ nextTaskId = 2
  /\ nextProjectId = 2
  /\ last = Result("none", Absent, "ok")
  /\ deleting = {}
  /\ inflight = {}
  /\ side = SideInit

AdminUpdateProjectStep ==
  \E p \in ProjectIds, data \in ProjectPatches : UpdateProject(Admin, p, data)
AdminDeleteProjectStep == \E p \in ProjectIds : DeleteProject(Admin, p)
AdminAddMemberStep ==
  \E p \in ProjectIds, n \in UserIds : AddProjectMember(Admin, p, n, "MEMBER")
AdminRemoveMemberStep ==
  \E p \in ProjectIds, n \in UserIds : RemoveProjectMember(Admin, p, n)
AdminUpdateMemberStep ==
  \E p \in ProjectIds, n \in UserIds : UpdateProjectMember(Admin, p, n, "MEMBER")
AdminCreateTaskStep ==
  \E p \in ProjectIds, body \in TaskBodies : CreateTask(Admin, p, body)
AdminUpdateTaskStep ==
  \E t \in TaskIds, status \in Statuses : UpdateTask(Admin, t, StatusOnly(status))
AdminAssignTaskStep ==
  \E t \in TaskIds, n \in UserIds : AssignTask(Admin, t, n)
AdminDeleteTaskStep == \E t \in TaskIds : DeleteTask(Admin, t)
AdminGetTaskByIdStep == \E t \in TaskIds : GetTaskById(Admin, t)
AdminAddTaskCommentStep == \E t \in TaskIds : AddTaskComment(Admin, t)
AdminGetProjectTasksStep == \E p \in ProjectIds : GetProjectTasks(Admin, p)
AdminGetProjectTaskStatsStep == \E p \in ProjectIds : GetProjectTaskStats(Admin, p)

NextAdmin ==
  \/ AdminUpdateProjectStep
  \/ AdminDeleteProjectStep
  \/ AdminAddMemberStep
  \/ AdminRemoveMemberStep
  \/ AdminUpdateMemberStep
  \/ AdminCreateTaskStep
  \/ AdminUpdateTaskStep
  \/ AdminAssignTaskStep
  \/ AdminDeleteTaskStep
  \/ AdminGetTaskByIdStep
  \/ AdminAddTaskCommentStep
  \/ AdminGetProjectTasksStep
  \/ AdminGetProjectTaskStatsStep

SpecAdmin == InitAdmin /\ [][NextAdmin]_vars

(* ------------- specification of the cascade of deleteProject ----------- *)
\* deleteProject awaits two writes, Task.deleteMany and then
\* Project.findByIdAndDelete: here each write is a step of its own, so that
\* the store between the two is a state.  deleting holds the project whose
\* deleteProject has done the first write and not yet the second.  The start
\* is a store of projects that createProject and addProjectMember produce and
\* of tasks that their owners created with the plain body.
MaxCascadeProjects == 2
MaxCascadeTasks == 3

CascadeProjectIds == 1..MaxCascadeProjects
CascadeTaskIds == 1..MaxCascadeTasks

CascadeRosters ==
  {<<entry(o, "OWNER")>> \o x :
     o \in {"um", "ua"}, x \in optionalEntry("ux", {"MANAGER"})}

InitDelete ==
  /\ \E rosters \in [CascadeProjectIds -> CascadeRosters] :
       projects = [p \in CascadeProjectIds |->
                     [ownerId |-> rosters[p][1].userId,
                      status |-> "ACTIVE",
                      members |-> rosters[p]]]
  /\ \E place \in [CascadeTaskIds -> CascadeProjectIds] :
       tasks = [t \in CascadeTaskIds |->
                  [projectId |-> place[t],
                   createdBy |-> projects[place[t]].ownerId,
                   status |-> "TODO",
                   priority |-> "MEDIUM",
                   assignedTo |-> Null,
                   completedAt |-> Null,
                   comments |-> <<>>]]
  /\ nextProjectId = MaxCascadeProjects + 1
  /\ nextTaskId = MaxCascadeTasks + 1
  /\ last = Result("none", Absent, "ok")
  /\ deleting = {}
  /\ inflight = {}
  /\ side = SideInit

\* the checks and the first write; a request that fails ends here
DeleteProjectTasks(u, p) ==
  /\ deleting = {}
  /\ \E r \in {deleteProjectTasks(projects, tasks, p, u, tokenRole(u))} :
       /\ projects' = r.projects
       /\ tasks' = r.tasks
       /\ deleting' = IF r.res = "ok" THEN {p} ELSE {}
       /\ last' = IF r.res = "ok" THEN last ELSE Result("deleteProject", Absent, r.res)
  /\ UNCHANGED <<nextProjectId, nextTaskId, inflight, side>>

\* the second write and the answer
DeleteProjectDoc(p) ==
  /\ p \in deleting
  /\ \E r \in {deleteProjectDoc(projects, tasks, p)} :
       /\ projects' = r.projects
       /\ tasks' = r.tasks
       /\ last' = Result("deleteProject", Absent, r.res)
  /\ deleting' = {}
  /\ UNCHANGED <<nextProjectId, nextTaskId, inflight, side>>

DeleteProjectTasksStep ==
  \E u \in Users, p \in CascadeProjectIds : DeleteProjectTasks(u, p)
DeleteProjectDocStep == \E p \in CascadeProjectIds : DeleteProjectDoc(p)

NextDelete ==
  \/ DeleteProjectTasksStep
  \/ DeleteProjectDocStep

SpecDelete == InitDelete /\ [][NextDelete]_vars

(* ------- specification of the updates through the update routes ------- *)
\* Starts as the task lifecycle does.  Tasks are created with the plain body
\* and updated through PUT /projects/:projectId/tasks/:taskId with bodies
\* that carry projectId and createdBy; the project is updated and members
\* are removed.
RawUpdateTaskStep ==
  \E u \in Users, t \in TaskIds, data \in RawTaskPatches : UpdateTask(u, t, data)

NextRaw ==
  \/ CreatePlainTaskStep
  \/ RawUpdateTaskStep
  \/ UpdateProjectStep
  \/ RemoveProjectMemberStep

SpecRaw == InitTask /\ [][NextRaw]_vars

(* ------ specification of createTask interleaved with deleteProject ----- *)
\* createTask awaits Project.findById, makes its checks on the document it
\* has read, and awaits Task.create; deleteProject awaits its two writes.
\* Here the read with the checks and the insert are steps of their own, as
\* are the two writes of deleteProject, and the steps of the two requests
\* interleave as the awaits allow.  inflight holds the createTask requests
\* that have passed the checks and not yet inserted, each with the project
\* documents as it has read them.
MaxInflight == 1

CreateTaskRead(u, p, body) ==
  /\ Cardinality(inflight) < MaxInflight
  /\ nextTaskId <= MaxTasks
  /\ \E r \in {createTask(projects, tasks, nextTaskId, p, u, tokenRole(u),
                          createTaskSchema(body))} :
       /\ inflight' = IF r.res = "ok"
                        THEN inflight \cup {[projects |-> projects,
                                             projectId |-> p,
                                             userId |-> u,
                                             data |-> createTaskSchema(body)]}
                        ELSE inflight
       /\ last' = IF r.res = "ok" THEN last ELSE Result("createTask", Absent, r.res)
  /\ UNCHANGED <<projects, tasks, nextProjectId, nextTaskId, deleting, side>>

\* Task.create({ ...data, projectId, createdBy: userId, status: "TODO" })
CreateTaskInsert ==
  \E q \in inflight :
    \E r \in {createTask(q.projects, tasks, nextTaskId, q.projectId, q.userId,
                         tokenRole(q.userId), q.data)} :
      /\ tasks' = r.tasks
      /\ nextTaskId' = nextTaskId + 1
      /\ inflight' = inflight \ {q}
      /\ last' = Result("createTask", Absent, r.res)
      /\ UNCHANGED <<projects, nextProjectId, deleting, side>>

CreateTaskReadStep == \E u \in Users, p \in ProjectIds : CreateTaskRead(u, p, PlainBody)
RaceDeleteProjectTasksStep == \E u \in Users, p \in ProjectIds : DeleteProjectTasks(u, p)
RaceDeleteProjectDocStep == \E p \in ProjectIds : DeleteProjectDoc(p)

NextRace ==
  \/ CreateTaskReadStep
  \/ CreateTaskInsert
  \/ RaceDeleteProjectTasksStep
  \/ RaceDeleteProjectDocStep

SpecRace == InitTask /\ [][NextRace]_vars

(* ------------- specification of the paginated listings ---------------- *)
\* Starts from a store of projects owned by um, the first with or without
\* the member ux, and of tasks of the first project that the owner created
\* with the plain body.  The owner deletes tasks and archives and reopens
\* projects while every user lists the tasks of a project and the projects
\* with every page and limit.  last holds the answer of a listing.
MaxListProjects == 2
MaxListTasks == 3
MaxPage == 3
MaxLimit == 2

ListProjectIds == 1..MaxListProjects
ListTaskIds == 1..MaxListTasks
Pages == 1..MaxPage
Limits == 1..MaxLimit

Listed(op, r) ==
  [op |-> op, status |-> Absent, res |-> r.res, data |-> r.data,
   pagination |-> r.pagination]

InitList ==
  /\ \E x \in optionalEntry("ux", {"MEMBER"}) :
       projects = [p \in ListProjectIds |->
                     [ownerId |-> "um",
                      status |-> "ACTIVE",
                      members |-> IF p = 1 THEN <<entry("um", "OWNER")>> \o x
                                           ELSE <<entry("um", "OWNER")>>]]
  /\ tasks = [t \in ListTaskIds |->
                [projectId |-> 1,
                 createdBy |-> "um",
                 status |-> "TODO",
                 priority |-> "MEDIUM",
                 assignedTo |-> Null,
                 completedAt |-> Null,
                 comments |-> <<>>]]
  /\ nextProjectId = MaxListProjects + 1
  /\ nextTaskId = MaxListTasks + 1
  /\ last = Listed("none", listingError("ok", 1, 1))
  /\ deleting = {}
  /\ inflight = {}
  /\ side = SideInit

GetProjectTasksPage(u, p, page, limit) ==
  /\ last' = Listed("getProjectTasks",
                    getProjectTasksPage(projects, tasks, p, u, tokenRole(u), page, limit))
  /\ UNCHANGED <<projects, tasks, nextProjectId, nextTaskId, deleting, inflight, side>>

GetUserProjects(u, page, limit, status) ==
  /\ last' = Listed("getUserProjects",
                    getUserProjects(projects, u, tokenRole(u), page, limit, status))
  /\ UNCHANGED <<projects, tasks, nextProjectId, nextTaskId, deleting, inflight, side>>

\* the writes of the owner, answered as the listings are
ListDeleteTask(t) ==
  \E r \in {deleteTask(projects, tasks, t, "um", tokenRole("um"))} :
    /\ tasks' = r.tasks
    /\ last' = Listed("deleteTask", listingError(r.res, 1, 1))
    /\ UNCHANGED <<projects, nextProjectId, nextTaskId, deleting, inflight, side>>

ListUpdateProject(p, data) ==
  \E r \in {updateProject(projects, tasks, p, "um", tokenRole("um"), data)} :
    /\ projects' = r.projects
    /\ last' = Listed("updateProject", listingError(r.res, 1, 1))
    /\ UNCHANGED <<tasks, nextProjectId, nextTaskId, deleting, inflight, side>>

GetProjectTasksPageStep ==
  \E u \in Users, p \in ListProjectIds, page \in Pages, limit \in Limits :
    GetProjectTasksPage(u, p, page, limit)
GetUserProjectsStep ==
  \E u \in Users, page \in Pages, limit \in Limits, status \in ProjectStatuses :
    GetUserProjects(u, page, limit, status)
ListDeleteTaskStep == \E t \in ListTaskIds : ListDeleteTask(t)
ListUpdateProjectStep ==
  \E p \in ListProjectIds, data \in ProjectPatches : ListUpdateProject(p, data)

NextList ==
  \/ GetProjectTasksPageStep
  \/ GetUserProjectsStep
  \/ ListDeleteTaskStep
  \/ ListUpdateProjectStep

SpecList == InitList /\ [][NextList]_vars

(* --------- specification of two interleaved updateTask requests -------- *)
\* updateTask awaits the read of the task (checkTaskAccess), makes its
\* checks on the document it has read, copies the patch into that document
\* and awaits task.save().  Here the read with the checks and the save are
\* steps of their own and the steps of the requests interleave.  inflight
\* holds the requests that have passed the checks and not yet saved, each
\* with the document as read and the document as it is after Object.assign.
\* The start is a project owned by um that holds one task, created by its
\* owner with the plain body; the owner and the ADMIN send the requests.
MaxUpdates == 2

\* task.save() of a document that was read as read and is now doc: the
\* paths that were modified are written to the stored document; a document
\* that is not stored any more is not written
taskSaveWhole(ts, taskId, read, doc) ==
  IF ~hasTask(ts, taskId) THEN ts ELSE [ts EXCEPT ![taskId] = doc]
taskSave(ts, taskId, read, doc) ==
  IF ~hasTask(ts, taskId) THEN ts
  ELSE [ts EXCEPT ![taskId] =
          [f \in DOMAIN @ |-> IF doc[f] # read[f] THEN doc[f] ELSE @[f]]]

InitUpdates ==
  /\ projects = (1 :> [ownerId |-> "um",
                       status |-> "ACTIVE",
                       members |-> <<entry("um", "OWNER")>>])
  /\ \E r \in {createTask(projects, <<>>, 1, 1, "um", tokenRole("um"),
                          createTaskSchema(PlainBody))} :
       r.res = "ok" /\ tasks = r.tasks
  /\ nextProjectId = 2
  /\ nextTaskId = 2
  /\ last = Result("none", Absent, "ok")
  /\ deleting = {}
  /\ inflight = {}
  /\ side = SideInit

UpdateTaskRead(u, t, data) ==
  /\ Cardinality(inflight) < MaxUpdates
  /\ \E r \in {updateTask(projects, tasks, t, u, tokenRole(u), data)} :
       /\ inflight' = IF r.res = "ok"
                        THEN inflight \cup {[taskId |-> t,
                                             userId |-> u,
                                             status |-> data.status,
                                             read |-> tasks[t],
                                             doc |-> r.tasks[t]]}
                        ELSE inflight
       /\ last' = IF r.res = "ok" THEN last ELSE Result("updateTask", data.status, r.res)
  /\ UNCHANGED <<projects, tasks, nextProjectId, nextTaskId, deleting, side>>

UpdateTaskSave ==
  \E q \in inflight :
    /\ tasks' = taskSave(tasks, q.taskId, q.read, q.doc)
    /\ inflight' = inflight \ {q}
    /\ last' = Result("updateTask", q.status, "ok")
    /\ UNCHANGED <<projects, nextProjectId, nextTaskId, deleting, side>>

UpdateTaskReadStep ==
  \E u \in {"um", Admin}, t \in TaskIds,
     data \in {StatusOnly(status) : status \in Statuses} \cup {PriorityOnly} :
    UpdateTaskRead(u, t, data)

NextUpdates ==
  \/ UpdateTaskReadStep
  \/ UpdateTaskSave

SpecUpdates == InitUpdates /\ [][NextUpdates]_vars

(* ------------ specification of the requests of a MANAGER --------------- *)
\* Every request comes from ux, who is not ADMIN, does not own the project
\* and starts with project role MANAGER.  The project is owned by um, with
\* or without the ADMIN as a further MANAGER or MEMBER, and holds one task,
\* created by the owner with the plain body.  ux adds members, changes roles,
\* removes members, moves the task between the statuses and deletes it.
Manager == "ux"

InitManager ==
  /\ \E a \in optionalEntry("ua", {"MANAGER", "MEMBER"}) :
       projects = (1 :> [ownerId |-> "um",
                         status |-> "ACTIVE",
                         members |-> <<entry("um", "OWNER"), entry(Manager, "MANAGER")>>
                                       \o a])
  /\ \E r \in {createTask(projects, <<>>, 1, 1, "um", tokenRole("um"),
                          createTaskSchema(PlainBody))} :
       r.res = "ok" /\ tasks = r.tasks
  /\ nextProjectId = 2
  /\ nextTaskId = 2
  /\ last = Result("none", Absent, "ok")
  /\ deleting = {}
  /\ inflight = {}
  /\ side = SideInit

ManagerAddMemberStep ==
  \E p \in ProjectIds, n \in UserIds, role \in ProjectRoles :
    AddProjectMember(Manager, p, n, role)
ManagerUpdateMemberStep ==
  \E p \in ProjectIds, n \in UserIds, role \in ProjectRoles :
    UpdateProjectMember(Manager, p, n, role)
ManagerRemoveMemberStep ==
  \E p \in ProjectIds, n \in UserIds : RemoveProjectMember(Manager, p, n)
ManagerMoveTaskStep ==
  \E t \in TaskIds, status \in Statuses : UpdateTaskStatus(Manager, t, status)
ManagerDeleteTaskStep == \E t \in TaskIds : DeleteTask(Manager, t)

NextManager ==
  \/ ManagerAddMemberStep
  \/ ManagerUpdateMemberStep
  \/ ManagerRemoveMemberStep
  \/ ManagerMoveTaskStep
  \/ ManagerDeleteTaskStep

SpecManager == InitManager /\ [][NextManager]_vars

(* ------------- specification of the validated request routes ----------- *)
\* A request passes through the middlewares of its route, one at a time, and
\* then reaches the controller.  req.params is the id in the path and
\* req.body the body sent; wellFormed says which of the two its schema
\* accepts.  req.validated is a function over the keys it holds, the empty
\* one while it is undefined.
projectIdSchema == {"params"}
updateProjectSchema == {"body"}
addProjectMemberSchema == {"body"}
taskIdSchema == {"params"}
updateTaskSchema == {"body"}
updateTaskStatusSchema == {"body"}

ChainedRoutes ==
  {"PUT /projects/:projectId",
   "POST /projects/:projectId/members",
   "PUT /tasks/:taskId",
   "PATCH /tasks/:taskId/status"}

InlineRoute == "PUT /projects/:projectId/tasks/:taskId"

Routes == ChainedRoutes \cup {InlineRoute}

\* schema.parse keeps the keys the schema declares and drops the others; the
\* result replaces req.validated
validateRequest(schema, req) ==
  IF \E part \in schema : ~req.wellFormed[part]
    THEN [res |-> "BadRequest", req |-> req]
    ELSE [res |-> "next",
          req |-> [req EXCEPT !.validated = [part \in schema |-> req[part]]]]

\* the middleware written in the route itself: it tests the task id and the
\* body and stores both
updateTaskInline(req) ==
  IF ~req.wellFormed.params \/ ~req.wellFormed.body
    THEN [res |-> "BadRequest", req |-> req]
    ELSE [res |-> "next",
          req |-> [req EXCEPT !.validated = [params |-> req.params,
                                             body |-> req.body]]]

\* the schemas of the validateRequest middlewares of a route, in order
schemas(route) ==
  CASE route = "PUT /projects/:projectId" ->
         <<projectIdSchema, updateProjectSchema>>
    [] route = "POST /projects/:projectId/members" ->
         <<projectIdSchema, addProjectMemberSchema>>
    [] route = "PUT /tasks/:taskId" ->
         <<taskIdSchema, updateTaskSchema>>
    [] route = "PATCH /tasks/:taskId/status" ->
         <<taskIdSchema, updateTaskStatusSchema>>
    [] OTHER -> <<>>

middlewares(route) == IF route = InlineRoute THEN 1 ELSE Len(schemas(route))

middleware(req) ==
  IF req.route = InlineRoute
    THEN updateTaskInline(req)
    ELSE validateRequest(schemas(req.route)[req.at], req)

\* the controller reads req.validated.params.projectId or .taskId, which
\* throws a TypeError when req.validated has no params; asyncHandler hands
\* the error to the error handler, which answers 500
controller(ps, ts, req) ==
  LET userId == req.userId
      userRole == tokenRole(req.userId)
      validated == req.validated
  IN IF "params" \notin DOMAIN validated
       THEN Outcome("InternalError", ps, ts)
       ELSE CASE req.route = "PUT /projects/:projectId" ->
                   updateProject(ps, ts, validated.params, userId, userRole,
                                 validated.body)
              [] req.route = "POST /projects/:projectId/members" ->
                   addProjectMember(ps, ts, validated.params, userId, userRole,
                                    validated.body.userId, validated.body.role)
              [] req.route = "PATCH /tasks/:taskId/status" ->
                   updateTaskStatus(ps, ts, validated.params, userId, userRole,
                                    validated.body.status)
              [] OTHER ->
                   updateTask(ps, ts, validated.params, userId, userRole,
                              validated.body)

\* the bodies sent to a route
RouteBodies(route) ==
  CASE route = "PUT /projects/:projectId" -> ProjectPatches
    [] route = "POST /projects/:projectId/members" ->
         [userId : {"ux"}, role : ProjectRoles]
    [] route = "PATCH /tasks/:taskId/status" ->
         {StatusOnly(status) : status \in Statuses}
    [] OTHER -> {PriorityOnly} \cup {StatusOnly(status) : status \in Statuses}

ReceiveRequest(route, u, id, body, wellFormed) ==
  /\ inflight = {}
  /\ inflight' = {[route |-> route,
                   userId |-> u,
                   params |-> id,
                   body |-> body,
                   wellFormed |-> wellFormed,
                   validated |-> <<>>,
                   at |-> 1]}
  /\ UNCHANGED <<projects, tasks, nextProjectId, nextTaskId, last, deleting, side>>

RunMiddleware ==
  \E req \in inflight :
    /\ req.at <= middlewares(req.route)
    /\ \E r \in {middleware(req)} :
         IF r.res = "next"
           THEN /\ inflight' = {[r.req EXCEPT !.at = @ + 1]}
                /\ UNCHANGED last
           ELSE /\ inflight' = {}
                /\ last' = Result(req.route, Absent, r.res)
    /\ UNCHANGED <<projects, tasks, nextProjectId, nextTaskId, deleting, side>>

RunController ==
  \E req \in inflight :
    /\ req.at > middlewares(req.route)
    /\ \E r \in {controller(projects, tasks, req)} :
         /\ projects' = r.projects
         /\ tasks' = r.tasks
         /\ last' = Result(req.route, Absent, r.res)
    /\ inflight' = {}
    /\ UNCHANGED <<nextProjectId, nextTaskId, deleting, side>>

ReceiveRequestStep ==
  \E route \in Routes, u \in Users, id \in 1..nextTaskId,
     wellFormed \in [{"params", "body"} -> BOOLEAN] :
    \E body \in RouteBodies(route) : ReceiveRequest(route, u, id, body, wellFormed)

NextRoute ==
  \/ ReceiveRequestStep
  \/ RunMiddleware
  \/ RunController

SpecRoute == InitUpdates /\ [][NextRoute]_vars

(* --------- specification of the cache and job queue utilities ---------- *)
\* The utilities are called in any order with any key, project and job type
\* while the Redis client connects, loses and regains its connection and the
\* queues are initialised; every client call a utility makes resolves or
\* rejects.  The stored projects and tasks play no part.
\* number of the client call of a utility call that rejects (0: none)
MaxClientCalls == 2

FailAts == 0..MaxClientCalls

sideFrame == <<projects, tasks, nextProjectId, nextTaskId, last, deleting, inflight>>

\* getRedisClient: the client in use, or a new client that connects or not
GetRedisClient(connects) ==
  /\ side' = IF side.redisClient # Null /\ side.isRedisConnected
               THEN side
               ELSE [side EXCEPT !.redisClient = "client",
                                 !.isRedisConnected = connects]
  /\ UNCHANGED sideFrame

\* redisClient.on("error")
RedisError ==
  /\ side.redisClient # Null
  /\ side' = [side EXCEPT !.isRedisConnected = FALSE]
  /\ UNCHANGED sideFrame

\* redisClient.on("connect")
RedisConnect ==
  /\ side.redisClient # Null
  /\ side' = [side EXCEPT !.isRedisConnected = TRUE]
  /\ UNCHANGED sideFrame

\* initializeQueues: throwsAt is the statement that throws (0: none; 1, 2:
\* the first, the second new Queue; 3: the set-up of the workers)
InitializeQueues(throwsAt) ==
  /\ side' = [side EXCEPT
                !.notificationQueue = IF throwsAt = 1 THEN @ ELSE "queue",
                !.taskQueue = IF throwsAt \in {1, 2} THEN @ ELSE "queue",
                !.isInitialized = (throwsAt = 0)]
  /\ UNCHANGED sideFrame

GetCached(key, failAt) ==
  /\ side' = afterCall(side, "getCached", getCached(side, key, failAt))
  /\ UNCHANGED sideFrame

SetCached(key, failAt) ==
  /\ side' = afterCall(side, "setCached", setCached(side, key, failAt))
  /\ UNCHANGED sideFrame

DeleteCached(key, failAt) ==
  /\ side' = afterCall(side, "deleteCached", deleteCached(side, key, failAt))
  /\ UNCHANGED sideFrame

DeleteMultipleCached(keys, failAt) ==
  /\ side' = afterCall(side, "deleteMultipleCached",
                       deleteMultipleCached(side, keys, failAt))
  /\ UNCHANGED sideFrame

InvalidateProjectCaches(projectId, failAt) ==
  /\ side' = [afterCall(side, "invalidateProjectCaches",
                        invalidateProjectCaches(side, projectId, failAt))
                EXCEPT !.invalidated = @ \cup {projectId}]
  /\ UNCHANGED sideFrame

AddNotificationJob(type, failAt) ==
  /\ side' = [afterCall(side, "addNotificationJob",
                        addNotificationJob(side, type, failAt))
                EXCEPT !.notified = @ \cup {type}]
  /\ UNCHANGED sideFrame

AddTaskJob(type, failAt) ==
  /\ side' = afterCall(side, "addTaskJob", addTaskJob(side, type, failAt))
  /\ UNCHANGED sideFrame

GetRedisClientStep == \E connects \in BOOLEAN : GetRedisClient(connects)
InitializeQueuesStep == \E throwsAt \in 0..3 : InitializeQueues(throwsAt)
GetCachedStep == \E key \in CacheKeys, failAt \in FailAts : GetCached(key, failAt)
SetCachedStep == \E key \in CacheKeys, failAt \in FailAts : SetCached(key, failAt)
DeleteCachedStep == \E key \in CacheKeys, failAt \in FailAts : DeleteCached(key, failAt)
DeleteMultipleCachedStep ==
  \E keys \in SUBSET CacheKeys, failAt \in FailAts : DeleteMultipleCached(keys, failAt)
InvalidateProjectCachesStep ==
  \E p \in ProjectIds, failAt \in FailAts : InvalidateProjectCaches(p, failAt)
AddNotificationJobStep ==
  \E type \in NotificationTypes, failAt \in FailAts : AddNotificationJob(type, failAt)
AddTaskJobStep ==
  \E type \in TaskJobTypes, failAt \in FailAts : AddTaskJob(type, failAt)

NextSide ==
  \/ GetRedisClientStep
  \/ RedisError
  \/ RedisConnect
  \/ InitializeQueuesStep
  \/ GetCachedStep
  \/ SetCachedStep
  \/ DeleteCachedStep
  \/ DeleteMultipleCachedStep
  \/ InvalidateProjectCachesStep
  \/ AddNotificationJobStep
  \/ AddTaskJobStep

SpecSide == Init /\ [][NextSide]_vars

(* =============================== claims ================================ *)
\* the transition table of the task workflow, as the specification states it
TransitionTable ==
  {<<"TODO", "IN_PROGRESS">>,
   <<"IN_PROGRESS", "TODO">>, <<"IN_PROGRESS", "DONE">>,
   <<"DONE", "TODO">>, <<"DONE", "IN_PROGRESS">>}

\* the requester passed the access and permission checks of the call
Authorised(r) == r.res \notin {"NotFound", "Forbidden"}

\* every updateTask call, in the current state, that asks for a status other
\* than the stored one
C1Calls ==
  \A t \in DOMAIN tasks, u \in Users, data \in TaskPatches :
    LET s == tasks[t].status
        r == updateTask(projects, tasks, t, u, tokenRole(u), data)
        q == updateTaskStatus(projects, tasks, t, u, tokenRole(u), data.status)
    IN (data.status # Absent /\ data.status # s /\ Authorised(r)) =>
         /\ <<s, data.status>> \notin TransitionTable =>
              r.res = "BadRequest" /\ r.tasks = tasks
         /\ (<<s, data.status>> \in TransitionTable /\ r.res = "ok") =>
              r.tasks[t].status = data.status
         /\ q.res = "ok" <=> <<s, data.status>> \in TransitionTable
         /\ q.res # "ok" => q.res = "BadRequest" /\ q.tasks = tasks

\* a step changes the stored status of a task only along the table
C1Steps ==
  \A t \in (DOMAIN tasks) \cap (DOMAIN tasks') :
    tasks'[t].status # tasks[t].status =>
      <<tasks[t].status, tasks'[t].status>> \in TransitionTable

\* C1: an authorised updateTask / updateTaskStatus call that asks for a status
\* t other than the stored status s succeeds and stores t exactly when s -> t
\* is in the transition table, otherwise (TODO -> DONE) it fails with
\* BadRequest; so the stored status of a task changes only along the table.
C1Theorem == [](C1Calls) /\ [][C1Steps]_vars

\* a request to move a TODO task directly to DONE was refused with BadRequest
C1Witness ==
  /\ last = Result("updateTaskStatus", "DONE", "BadRequest")
  /\ \E t \in DOMAIN tasks : tasks[t].status = "TODO"

C3Original ==
  \A t \in DOMAIN tasks : (tasks[t].completedAt # Null) <=> (tasks[t].status = "DONE")

\* every updateTask call, in the current state, that fails stores nothing
C4Calls ==
  \A t \in TaskIds, u \in Users, data \in TaskPatches :
    LET r == updateTask(projects, tasks, t, u, tokenRole(u), data)
    IN r.res # "ok" => r.tasks = tasks /\ r.projects = projects

\* a step that is a failed update leaves both collections as they were
C4Steps ==
  (last'.op \in {"updateTask", "updateTaskStatus"} /\ last'.res # "ok") =>
    tasks' = tasks /\ projects' = projects

\* C4: updateTask is all-or-nothing: when the call fails (Forbidden,
\* BadRequest for an invalid transition, NotFound or BadRequest for the new
\* assignee) no field of the patch is applied, also when the patch carried
\* valid changes to other fields.
C4Theorem == [](C4Calls) /\ [][C4Steps]_vars

\* an update that asked for an assignee outside the roster (NotFound is the
\* unknown user) was refused while a task is stored
C4Witness ==
  /\ last.op = "updateTask"
  /\ last.res = "NotFound"
  /\ last.status = "IN_PROGRESS"
  /\ \E t \in DOMAIN tasks : tasks[t].status = "TODO" /\ tasks[t].assignedTo = Null

\* the roster of project holds an entry of userId with one of the roles
HasRole(project, userId, roles) ==
  \E i \in 1..Len(project.members) :
    project.members[i].userId = userId /\ project.members[i].role \in roles

\* who may create a task in project, as C8 states it
MayCreateTask(project, u) ==
  \/ globalRole(u) = "ADMIN"
  \/ project.ownerId = u
  \/ HasRole(project, u, {"OWNER", "MANAGER"})

C8Theorem ==
  \A p \in DOMAIN projects, u \in Users, body \in TaskBodies :
    LET r == createTask(projects, tasks, nextTaskId, p, u, tokenRole(u),
                        createTaskSchema(body))
    IN /\ r.res = "Forbidden" <=> ~MayCreateTask(projects[p], u)
       /\ r.res = "Forbidden" => r.tasks = tasks
       /\ (MayCreateTask(projects[p], u) /\ ~truthy(body.assignedTo)) =>
            /\ r.res = "ok"
            /\ DOMAIN r.tasks = DOMAIN tasks \cup {nextTaskId}

\* a createTask was refused with Forbidden in a project whose roster holds a
\* plain MEMBER, and the store holds no task
C8Witness ==
  /\ last = Result("createTask", Absent, "Forbidden")
  /\ tasks = <<>>
  /\ \E p \in DOMAIN projects :
       projects[p].ownerId = "um" /\ HasRole(projects[p], "ux", {"MEMBER"})

\* every project keeps an OWNER entry of its owner in the roster
OwnerInRoster ==
  \A p \in DOMAIN projects : HasRole(projects[p], projects[p].ownerId, {"OWNER"})

\* who may manage the roster of project (global ADMIN, owner, role MANAGER)
MayManage(project, u) ==
  \/ globalRole(u) = "ADMIN"
  \/ project.ownerId = u
  \/ HasRole(project, u, {"MANAGER"})

\* C5: in every reachable state the roster of a project holds an entry of the
\* project's owner with role OWNER: removeProjectMember and
\* updateProjectMember on the owner fail with BadRequest for every caller who
\* passes the authorization check, a global ADMIN included, and leave the
\* roster unchanged.
C5Theorem ==
  /\ OwnerInRoster
  /\ \A p \in DOMAIN projects, u \in Users :
       LET owner == projects[p].ownerId
           rm == removeProjectMember(projects, tasks, p, u, tokenRole(u), owner)
       IN MayManage(projects[p], u) =>
            /\ rm.res = "BadRequest" /\ rm.projects = projects
            /\ \A role \in ProjectRoles :
                 LET up == updateProjectMember(projects, tasks, p, u, tokenRole(u),
                                               owner, role)
                 IN up.res = "BadRequest" /\ up.projects = projects

\* a removal of the owner was refused in a project with a second member
C5Witness ==
  /\ last = Result("removeProjectMember", Absent, "BadRequest")
  /\ \E p \in DOMAIN projects : Len(projects[p].members) > 1

\* no user has two entries in a roster
NoDuplicateMember ==
  \A p \in DOMAIN projects :
    \A i, j \in 1..Len(projects[p].members) :
      projects[p].members[i].userId = projects[p].members[j].userId => i = j

\* C6: after any sequence of createProject, addProjectMember,
\* removeProjectMember and updateProjectMember calls a roster has at most one
\* entry per user: addProjectMember for a user already in the roster fails
\* with Conflict and leaves the roster unchanged.
C6Theorem ==
  /\ NoDuplicateMember
  /\ \A p \in DOMAIN projects, u \in Users, n \in Users, role \in ProjectRoles :
       LET r == addProjectMember(projects, tasks, p, u, tokenRole(u), n, role)
       IN (MayManage(projects[p], u) /\ HasRole(projects[p], n, ProjectRoles)) =>
            r.res = "Conflict" /\ r.projects = projects

\* a second add of a member was refused with Conflict
C6Witness ==
  /\ last = Result("addProjectMember", Absent, "Conflict")
  /\ \E p \in DOMAIN projects : Len(projects[p].members) > 1

MayEditProject(project, u) == project.ownerId = u \/ globalRole(u) = "ADMIN"

\* C10: updateProject and deleteProject are permitted exactly when the
\* requester is the project's owner or a global ADMIN; every other requester,
\* a roster member with role MANAGER or OWNER included, gets Forbidden and
\* the project and its tasks are unchanged.
C10Theorem ==
  \A p \in DOMAIN projects, u \in Users :
    LET del == deleteProject(projects, tasks, p, u, tokenRole(u))
    IN /\ del.res = (IF MayEditProject(projects[p], u) THEN "ok" ELSE "Forbidden")
       /\ del.res = "Forbidden" => del.projects = projects /\ del.tasks = tasks
       /\ \A data \in ProjectPatches :
            LET upd == updateProject(projects, tasks, p, u, tokenRole(u), data)
            IN /\ upd.res = (IF MayEditProject(projects[p], u) THEN "ok" ELSE "Forbidden")
               /\ upd.res = "Forbidden" => upd.projects = projects /\ upd.tasks = tasks

\* a deleteProject was refused with Forbidden; the only user who is neither
\* owner nor ADMIN holds role MANAGER in the roster, and the project has a task
C10Witness ==
  /\ last = Result("deleteProject", Absent, "Forbidden")
  /\ \E p \in DOMAIN projects :
       /\ projects[p].ownerId = "um"
       /\ HasRole(projects[p], "ux", {"MANAGER"})
       /\ \E t \in DOMAIN tasks : tasks[t].projectId = p

\* no stored task refers to a project that is not stored
NoTaskWithoutProject ==
  \A t \in DOMAIN tasks : tasks[t].projectId \in DOMAIN projects

\* every deleteProject call, in the current state: the two writes one after
\* the other give the store that deleteProject gives, and after a successful
\* call the project and its tasks are gone and nothing else has changed
C11Calls ==
  \A p \in DOMAIN projects, u \in Users :
    LET first == deleteProjectTasks(projects, tasks, p, u, tokenRole(u))
        second == deleteProjectDoc(first.projects, first.tasks, p)
        r == deleteProject(projects, tasks, p, u, tokenRole(u))
    IN /\ r.res = first.res
       /\ r.res = "ok" =>
            /\ r.projects = second.projects /\ r.tasks = second.tasks
            /\ DOMAIN r.projects = (DOMAIN projects) \ {p}
            /\ \A q \in DOMAIN r.projects : r.projects[q] = projects[q]
            /\ DOMAIN r.tasks = {t \in DOMAIN tasks : tasks[t].projectId # p}
            /\ \A t \in DOMAIN r.tasks : r.tasks[t] = tasks[t]

\* the first write removes the tasks of the project and nothing else, the
\* second write removes the project document and nothing else
C11Steps ==
  /\ (deleting = {} /\ deleting' # {}) =>
       /\ projects' = projects
       /\ DOMAIN tasks' = {t \in DOMAIN tasks : tasks[t].projectId \notin deleting'}
       /\ \A t \in DOMAIN tasks' : tasks'[t] = tasks[t]
  /\ (deleting # {} /\ deleting' = {}) =>
       /\ tasks' = tasks
       /\ DOMAIN projects' = (DOMAIN projects) \ deleting
       /\ \A q \in DOMAIN projects' : projects'[q] = projects[q]
       /\ \A t \in DOMAIN tasks' : tasks'[t].projectId \notin deleting

\* C11: after a successful deleteProject(P) no stored task has projectId P
\* and P is not stored, while the other projects and every task of them are
\* unchanged; the tasks are deleted before the project document, so that
\* neither the store between the two writes nor any other state holds a
\* task of P without P.
C11Theorem == [](NoTaskWithoutProject /\ C11Calls) /\ [][C11Steps]_vars

\* a deleteProject has removed project 1 and some of the tasks; the tasks
\* that are left are those of the other project
C11Witness ==
  /\ last = Result("deleteProject", Absent, "ok")
  /\ deleting = {}
  /\ 1 \notin DOMAIN projects
  /\ DOMAIN tasks # {}
  /\ DOMAIN tasks # CascadeTaskIds

\* C12: addProjectMember, removeProjectMember and updateProjectMember are
\* permitted exactly when the requester is global ADMIN, the project's owner
\* or a roster member with project role MANAGER: every other requester (a
\* plain MEMBER, a member with role OWNER who is not the owner, a user
\* without roster entry) gets Forbidden and the roster is unchanged, and a
\* permitted requester is never answered Forbidden.
C12Theorem ==
  \A p \in DOMAIN projects, u \in Users, n \in UserIds, role \in ProjectRoles :
    LET add == addProjectMember(projects, tasks, p, u, tokenRole(u), n, role)
        rm == removeProjectMember(projects, tasks, p, u, tokenRole(u), n)
        up == updateProjectMember(projects, tasks, p, u, tokenRole(u), n, role)
        refused == ~MayManage(projects[p], u)
    IN /\ add.res = "Forbidden" <=> refused
       /\ rm.res = "Forbidden" <=> refused
       /\ up.res = "Forbidden" <=> refused
       /\ refused => /\ add.projects = projects
                     /\ rm.projects = projects
                     /\ up.projects = projects
       /\ (~refused /\ n \in Users /\ ~HasRole(projects[p], n, ProjectRoles)) =>
            /\ add.res = "ok"
            /\ add.projects[p].members =
                 Append(projects[p].members, [userId |-> n, role |-> role])
       /\ (~refused /\ HasRole(projects[p], n, ProjectRoles) /\ n # projects[p].ownerId) =>
            /\ rm.res = "ok" /\ ~HasRole(rm.projects[p], n, ProjectRoles)
            /\ up.res = "ok" /\ HasRole(up.projects[p], n, {role})

\* a change of a member's role was refused with Forbidden; the only user who
\* is neither ADMIN nor the owner holds role OWNER in the roster
C12Witness ==
  /\ last = Result("updateProjectMember", Absent, "Forbidden")
  /\ \E p \in DOMAIN projects :
       /\ projects[p].ownerId = "um"
       /\ HasRole(projects[p], "ux", {"OWNER"})

\* who may change the status of task, as C13 states it
MayChangeStatus(project, task, u) ==
  \/ globalRole(u) = "ADMIN"
  \/ project.ownerId = u
  \/ task.assignedTo = u
  \/ HasRole(project, u, {"OWNER", "MANAGER"})

MayDelete(project, task, u) ==
  \/ globalRole(u) = "ADMIN"
  \/ project.ownerId = u
  \/ task.createdBy = u
  \/ HasRole(project, u, {"OWNER"})

C15Original ==
  \A t \in DOMAIN tasks, u \in Users :
    HasRole(projects[tasks[t].projectId], u, {"MANAGER"}) =>
      deleteTask(projects, tasks, t, u, tokenRole(u)).res = "ok"

\* the relations that pass the access check of a task
PassesTaskAccess(project, task, u) ==
  \/ globalRole(u) = "ADMIN"
  \/ project.ownerId = u
  \/ HasRole(project, u, ProjectRoles)
  \/ task.assignedTo = u

\* the original statement of C16: deleteTask by the task's creator succeeds
\* whatever the creator's roster entry is at the time of the call
C16Original ==
  \A t \in DOMAIN tasks, u \in Users :
    tasks[t].createdBy = u => deleteTask(projects, tasks, t, u, tokenRole(u)).res = "ok"

\* C16 (amended): deleteTask by the task's creator succeeds whatever project
\* role the creator holds at the time of the call (so after a demotion from
\* MANAGER to MEMBER) as long as the creator passes the access check of the
\* task, that is, is global ADMIN, the project's owner, in the roster, or the
\* task's assignee; a creator who was removed from the roster and is none of
\* these gets Forbidden and the task stays stored.
C16Theorem ==
  \A t \in DOMAIN tasks, u \in Users :
    LET task == tasks[t]
        project == projects[task.projectId]
        r == deleteTask(projects, tasks, t, u, tokenRole(u))
    IN task.createdBy = u =>
         IF PassesTaskAccess(project, task, u)
           THEN /\ r.res = "ok"
                /\ DOMAIN r.tasks = (DOMAIN tasks) \ {t}
                /\ \A x \in DOMAIN r.tasks : r.tasks[x] = tasks[x]
           ELSE r.res = "Forbidden" /\ r.tasks = tasks

\* a deleteTask was refused with Forbidden: the only stored task was created
\* by the only user who is neither ADMIN nor the owner, who is not its
\* assignee and has no roster entry any more
C16Witness ==
  /\ last = Result("deleteTask", Absent, "Forbidden")
  /\ \E t \in DOMAIN tasks :
       /\ DOMAIN tasks = {t}
       /\ tasks[t].createdBy = "ux"
       /\ tasks[t].assignedTo # "ux"
       /\ projects[tasks[t].projectId].ownerId = "um"
       /\ ~HasRole(projects[tasks[t].projectId], "ux", ProjectRoles)

\* the requester is in the roster as plain MEMBER and is neither the
\* project's owner nor global ADMIN
PlainMember(project, u) ==
  /\ HasRole(project, u, {"MEMBER"})
  /\ project.ownerId # u
  /\ globalRole(u) # "ADMIN"

\* C17: for a requester whose project role is plain MEMBER (not owner, not
\* ADMIN) updateTask of a field other than status is permitted if and only
\* if the requester is the task's creator or its assignee; so a MEMBER who
\* created the task and is not its assignee (a former MANAGER) can edit it.
C17Original ==
  \A t \in DOMAIN tasks, u \in Users :
    LET task == tasks[t]
        project == projects[task.projectId]
        r == updateTask(projects, tasks, t, u, tokenRole(u), PriorityOnly)
    IN PlainMember(project, u) =>
         (r.res = "ok" <=> (task.createdBy = u \/ task.assignedTo = u))

\* u is not in the roster of project, not its owner and not global ADMIN
Outsider(project, u) ==
  /\ ~HasRole(project, u, ProjectRoles)
  /\ project.ownerId # u
  /\ globalRole(u) # "ADMIN"

\* C19: a user without roster entry in a project (and neither its owner nor
\* ADMIN) who is the assignee of task T of the project passes the access
\* check of T: getTaskById, updateTask (an edit of a field, a status change
\* along the table) and addTaskComment on T succeed; every operation of that
\* user on a task of the project that is not assigned to them, and
\* getProjectTasks and getProjectTaskStats on the project, are Forbidden and
\* store nothing.
C19Theorem ==
  \A t \in DOMAIN tasks, u \in Users :
    LET task == tasks[t]
        p == task.projectId
        role == tokenRole(u)
        get == getTaskById(projects, tasks, t, u, role)
        edit == updateTask(projects, tasks, t, u, role, PriorityOnly)
        com == addTaskComment(projects, tasks, t, u, role)
        del == deleteTask(projects, tasks, t, u, role)
        list == getProjectTasks(projects, tasks, p, u, role)
        stats == getProjectTaskStats(projects, tasks, p, u, role)
    IN Outsider(projects[p], u) =>
         /\ list.res = "Forbidden" /\ stats.res = "Forbidden"
         /\ task.assignedTo = u =>
              /\ get.res = "ok"
              /\ edit.res = "ok" /\ edit.tasks[t].priority = "HIGH"
              /\ com.res = "ok" /\ com.tasks[t].comments = Append(task.comments, u)
              /\ \A status \in Statuses :
                   LET move == updateTask(projects, tasks, t, u, role, StatusOnly(status))
                   IN <<task.status, status>> \in TransitionTable =>
                        move.res = "ok" /\ move.tasks[t].status = status
         /\ task.assignedTo # u =>
              /\ get.res = "Forbidden"
              /\ com.res = "Forbidden" /\ com.tasks = tasks
              /\ del.res = "Forbidden" /\ del.tasks = tasks
              /\ \A data \in TaskPatches :
                   LET r == updateTask(projects, tasks, t, u, role, data)
                   IN r.res = "Forbidden" /\ r.tasks = tasks
              /\ \A n \in UserIds :
                   LET r == assignTask(projects, tasks, t, u, role, n)
                   IN r.res = "Forbidden" /\ r.tasks = tasks

\* the last request stored the only comment of the store, written by ux on
\* a task assigned to ux, while ux has no roster entry; the project holds a
\* second task, not assigned to ux
C19Witness ==
  /\ last = Result("addTaskComment", Absent, "ok")
  /\ \E t, x \in DOMAIN tasks :
       /\ tasks[t].assignedTo = "ux"
       /\ tasks[t].comments = <<"ux">>
       /\ ~HasRole(projects[tasks[t].projectId], "ux", ProjectRoles)
       /\ projects[tasks[t].projectId].ownerId = "um"
       /\ tasks[x].projectId = tasks[t].projectId
       /\ tasks[x].assignedTo # "ux"
       /\ tasks[x].comments = <<>>

\* who may assign a task of project, as C18 states it
MayAssign(project, u) ==
  \/ globalRole(u) = "ADMIN"
  \/ project.ownerId = u
  \/ HasRole(project, u, {"OWNER", "MANAGER"})

\* C18: assignTask is answered Forbidden exactly when the requester is none
\* of global ADMIN, the project's owner, a roster member with role OWNER or
\* MANAGER, the task's current assignee included.  For a permitted requester
\* the call succeeds exactly when the target is an existing user in the
\* roster; then assignedTo is the target and no other field of the task and
\* no other task changes.  Every failed call leaves the tasks as they were.
C18Theorem ==
  \A t \in DOMAIN tasks, u \in Users, n \in UserIds :
    LET task == tasks[t]
        project == projects[task.projectId]
        r == assignTask(projects, tasks, t, u, tokenRole(u), n)
    IN /\ r.res = "Forbidden" <=> ~MayAssign(project, u)
       /\ r.res # "ok" => r.tasks = tasks
       /\ MayAssign(project, u) =>
            (r.res = "ok" <=> (n \in Users /\ HasRole(project, n, ProjectRoles)))
       /\ r.res = "ok" =>
            /\ r.tasks = [tasks EXCEPT ![t].assignedTo = n]
            /\ r.projects = projects

\* an assignTask was refused with Forbidden while the task is assigned to
\* the only user who is neither ADMIN nor the owner, a plain MEMBER
C18Witness ==
  /\ last = Result("assignTask", Absent, "Forbidden")
  /\ \E t \in DOMAIN tasks :
       /\ tasks[t].assignedTo = "ux"
       /\ projects[tasks[t].projectId].ownerId = "um"
       /\ HasRole(projects[tasks[t].projectId], "ux", {"MEMBER"})

\* the kinds of answer a request of the ADMIN can get
AdminAnswers == {"ok", "NotFound", "BadRequest", "Conflict"}

\* every call of the ADMIN, in the current state, on a stored or missing
\* project
C20ProjectCalls ==
  /\ createProject(projects, tasks, nextProjectId, Admin).res \in AdminAnswers
  /\ \A p \in ProjectIds :
       /\ deleteProject(projects, tasks, p, Admin, tokenRole(Admin)).res \in AdminAnswers
       /\ getProjectTasks(projects, tasks, p, Admin, tokenRole(Admin)).res \in AdminAnswers
       /\ getProjectTaskStats(projects, tasks, p, Admin, tokenRole(Admin)).res \in AdminAnswers
       /\ \A data \in ProjectPatches :
            updateProject(projects, tasks, p, Admin, tokenRole(Admin), data).res
              \in AdminAnswers
       /\ \A body \in TaskBodies :
            createTask(projects, tasks, nextTaskId, p, Admin, tokenRole(Admin),
                       createTaskSchema(body)).res \in AdminAnswers
       /\ \A n \in UserIds :
            /\ removeProjectMember(projects, tasks, p, Admin, tokenRole(Admin), n).res
                 \in AdminAnswers
            /\ \A role \in ProjectRoles :
                 /\ addProjectMember(projects, tasks, p, Admin, tokenRole(Admin),
                                     n, role).res \in AdminAnswers
                 /\ updateProjectMember(projects, tasks, p, Admin, tokenRole(Admin),
                                        n, role).res \in AdminAnswers

\* every call of the ADMIN, in the current state, on a stored or missing task
C20TaskCalls ==
  \A t \in TaskIds :
    /\ getTaskById(projects, tasks, t, Admin, tokenRole(Admin)).res \in AdminAnswers
    /\ deleteTask(projects, tasks, t, Admin, tokenRole(Admin)).res \in AdminAnswers
    /\ addTaskComment(projects, tasks, t, Admin, tokenRole(Admin)).res \in AdminAnswers
    /\ \A data \in TaskPatches :
         updateTask(projects, tasks, t, Admin, tokenRole(Admin), data).res \in AdminAnswers
    /\ \A status \in Statuses :
         updateTaskStatus(projects, tasks, t, Admin, tokenRole(Admin), status).res
           \in AdminAnswers
    /\ \A n \in UserIds :
         assignTask(projects, tasks, t, Admin, tokenRole(Admin), n).res \in AdminAnswers

\* C20: no project or task operation answers Forbidden to a requester whose
\* global role is ADMIN, whether the requester is the owner or not, in the
\* roster or not, creator or assignee of the task or not: the answer to a
\* request of the ADMIN is ok, NotFound, BadRequest or Conflict.
C20Theorem ==
  /\ last.res \in AdminAnswers
  /\ C20ProjectCalls
  /\ C20TaskCalls

\* the ADMIN, who is not the owner of the project, not in its roster, not
\* the creator and not the assignee of the task, has commented the task
C20Witness ==
  /\ last = Result("addTaskComment", Absent, "ok")
  /\ \E t \in DOMAIN tasks :
       /\ tasks[t].comments = <<Admin>>
       /\ tasks[t].createdBy # Admin
       /\ tasks[t].assignedTo # Admin
       /\ projects[tasks[t].projectId].ownerId # Admin
       /\ ~HasRole(projects[tasks[t].projectId], Admin, ProjectRoles)

TaskWrites ==
  {"createTask", "updateTask", "updateTaskStatus", "assignTask", "deleteTask",
   "addTaskComment"}

\* C21: when a task write (createTask, updateTask, assignTask, deleteTask,
\* addTaskComment) has succeeded, the request has called the invalidation of
\* the cached listings and statistics of the task's project, and when it was
\* an assignment or a status change, it has asked for the TASK_ASSIGNED or
\* TASK_STATUS_CHANGED notification job.
C21Original ==
  (last.op \in TaskWrites /\ last.res = "ok") =>
    /\ \A p \in DOMAIN projects : p \in side.invalidated
    /\ last.op = "assignTask" => "TASK_ASSIGNED" \in side.notified
    /\ (last.op \in {"updateTask", "updateTaskStatus"} /\ last.status # Absent) =>
         "TASK_STATUS_CHANGED" \in side.notified

\* the utility calls that touch Redis, in the module state s
RedisCalls(s) ==
  {getCached(s, key, failAt) : key \in CacheKeys, failAt \in FailAts}
  \cup {setCached(s, key, failAt) : key \in CacheKeys, failAt \in FailAts}
  \cup {deleteCached(s, key, failAt) : key \in CacheKeys, failAt \in FailAts}
  \cup {deleteMultipleCached(s, keys, failAt) :
          keys \in SUBSET CacheKeys, failAt \in FailAts}
  \cup {invalidateProjectCaches(s, p, failAt) : p \in ProjectIds, failAt \in FailAts}

NotificationCalls(s) ==
  {addNotificationJob(s, type, failAt) : type \in NotificationTypes, failAt \in FailAts}

TaskJobCalls(s) ==
  {addTaskJob(s, type, failAt) : type \in TaskJobTypes, failAt \in FailAts}

\* the call made no client call, returned null or nothing and left the
\* store and the queues as they were
NoOp(s, r) ==
  /\ r.clientCalls = 0
  /\ r.value \in {Null, Absent}
  /\ r.cache = s.cache
  /\ r.jobs = s.jobs

\* C22: getCached, setCached, deleteCached, deleteMultipleCached,
\* invalidateProjectCaches, addNotificationJob and addTaskJob never throw,
\* whether the client is connected, not connected, or a client call rejects
\* during the call; a call made while the utilities hold the backend to be
\* unavailable (no connected Redis client, no initialised queue) makes no
\* client call and returns null or nothing.
C22Theorem ==
  /\ \A r \in RedisCalls(side) :
       /\ r.outcome = "returned"
       /\ ~isRedisAvailable(side) => NoOp(side, r)
  /\ \A r \in NotificationCalls(side) :
       /\ r.outcome = "returned"
       /\ (side.notificationQueue = Null \/ ~side.isInitialized) => NoOp(side, r)
  /\ \A r \in TaskJobCalls(side) :
       /\ r.outcome = "returned"
       /\ (side.taskQueue = Null \/ ~side.isInitialized) => NoOp(side, r)

\* invalidateProjectCaches has returned nothing although the deletion, its
\* second client call, rejected
C22Witness ==
  /\ side.ret.fn = "invalidateProjectCaches"
  /\ side.ret.rejected
  /\ side.ret.clientCalls = 2
  /\ side.ret.outcome = "returned"
  /\ side.ret.value = Absent

\* C23: no step changes the ownerId of a project that stays stored, nor the
\* projectId or the createdBy of a task that stays stored, also not an
\* update through the project and task update routes.
C23Original ==
  [][/\ \A p \in DOMAIN projects \cap DOMAIN projects' :
          projects'[p].ownerId = projects[p].ownerId
     /\ \A t \in DOMAIN tasks \cap DOMAIN tasks' :
          /\ tasks'[t].projectId = tasks[t].projectId
          /\ tasks'[t].createdBy = tasks[t].createdBy]_vars

\* C24: every stored task's projectId is the id of a stored project, also
\* when the steps of a createTask (read the project, check the roles, insert)
\* interleave with the two writes of a deleteProject of that project.
C24Original ==
  \A t \in DOMAIN tasks : hasProject(projects, tasks[t].projectId)

\* the answer r lists, with page and limit, a store that holds total
\* matching documents
Paginates(r, page, limit, total) ==
  LET pages == r.pagination.pages IN
  /\ r.res = "ok"
  /\ r.pagination.total = total
  /\ pages * limit >= total
  /\ pages = 0 \/ (pages - 1) * limit < total
  /\ Len(r.data) <= limit
  /\ page > pages => r.data = <<>>
  /\ page < pages => Len(r.data) = limit
  /\ page = pages => Len(r.data) = total - (pages - 1) * limit

\* C25: getProjectTasks, for a requester who may view the project, and
\* getUserProjects, called with a page >= 1 and a limit L >= 1, answer with
\* pagination.total the number of matching documents, pagination.pages the
\* least number of pages of L that hold them (ceil(total / L)), at most L
\* items, and an empty list without error for a page beyond the last.
C25Theorem ==
  \A page \in Pages, limit \in Limits, u \in Users :
    /\ \A p \in DOMAIN projects :
         checkProjectView(projects, p, u, tokenRole(u)) = "ok" =>
           Paginates(getProjectTasksPage(projects, tasks, p, u, tokenRole(u), page, limit),
                     page, limit,
                     Cardinality({t \in DOMAIN tasks : tasks[t].projectId = p}))
    /\ \A status \in ProjectStatuses :
         Paginates(getUserProjects(projects, u, tokenRole(u), page, limit, status),
                   page, limit,
                   Cardinality({p \in DOMAIN projects :
                                  /\ projects[p].status = status
                                  /\ \/ tokenRole(u) = "ADMIN"
                                     \/ projects[p].ownerId = u
                                     \/ HasRole(projects[p], u, ProjectRoles)}))

\* the tasks of a project that holds three have been listed by twos: the
\* answer to page 3 is the empty list, with two pages and a total of three
C25Witness ==
  /\ last.op = "getProjectTasks"
  /\ last.res = "ok"
  /\ last.pagination = [page |-> 3, limit |-> 2, total |-> 3, pages |-> 2]
  /\ last.data = <<>>

\* C26: each stored task's assignedTo is empty or a user who has an entry in
\* the roster of the task's project, also after removeProjectMember has
\* removed the assignee.
C26Original ==
  \A t \in DOMAIN tasks :
    \/ tasks[t].assignedTo = Null
    \/ HasRole(projects[tasks[t].projectId], tasks[t].assignedTo, ProjectRoles)

\* C26, amended: a call of createTask, assignTask or updateTask that sets a
\* task's assignedTo to a user sets it to a user who has an entry in the
\* roster of the task's project at the time of the call; removeProjectMember
\* leaves every task as it is, so that a task stays assigned to a user who
\* has been removed from the roster.
C26Theorem ==
  /\ \A t \in DOMAIN tasks, u \in Users :
       LET task == tasks[t]
           project == projects[task.projectId]
           set(r) == /\ r.res = "ok"
                     /\ r.tasks[t].assignedTo \notin {Null, task.assignedTo}
       IN /\ \A n \in UserIds :
               LET r == assignTask(projects, tasks, t, u, tokenRole(u), n)
               IN r.res = "ok" => /\ r.tasks[t].assignedTo = n
                                  /\ HasRole(project, n, ProjectRoles)
          /\ \A data \in TaskPatches :
               LET r == updateTask(projects, tasks, t, u, tokenRole(u), data)
               IN set(r) => HasRole(project, r.tasks[t].assignedTo, ProjectRoles)
  /\ \A p \in DOMAIN projects, u \in Users, body \in TaskBodies :
       LET r == createTask(projects, tasks, nextTaskId, p, u, tokenRole(u),
                           createTaskSchema(body))
       IN r.res = "ok" =>
            \/ r.tasks[nextTaskId].assignedTo = Null
            \/ HasRole(projects[p], r.tasks[nextTaskId].assignedTo, ProjectRoles)
  /\ \A p \in DOMAIN projects, u \in Users, n \in UserIds :
       removeProjectMember(projects, tasks, p, u, tokenRole(u), n).tasks = tasks

\* a removeProjectMember has removed ux from the roster while a task of the
\* project is assigned to ux, and the task is still assigned to ux
C26Witness ==
  /\ last = Result("removeProjectMember", Absent, "ok")
  /\ \E t \in DOMAIN tasks :
       /\ tasks[t].assignedTo = "ux"
       /\ ~HasRole(projects[tasks[t].projectId], "ux", ProjectRoles)

\* C27: a call that changes or clears a task's assignedTo, be it assignTask
\* or updateTask with an assignedTo field, comes from a requester assignTask
\* authorises (global ADMIN, the project's owner, project role OWNER or
\* MANAGER); a plain MEMBER who is the task's assignee changes it by neither.
C27Original ==
  \A t \in DOMAIN tasks, u \in Users :
    LET task == tasks[t]
        project == projects[task.projectId]
        changes(r) == r.res = "ok" /\ r.tasks[t].assignedTo # task.assignedTo
    IN /\ \A n \in UserIds :
            changes(assignTask(projects, tasks, t, u, tokenRole(u), n)) =>
              MayAssign(project, u)
       /\ \A data \in TaskPatches :
            changes(updateTask(projects, tasks, t, u, tokenRole(u), data)) =>
              MayAssign(project, u)

\* C28: when two updateTask requests on the same task interleave (each
\* reads the task, validates against the status it read, then saves), every
\* change of the stored status is a transition of the table, and completedAt
\* is set exactly when the stored status is DONE.
C28Original ==
  /\ [](\A t \in DOMAIN tasks :
          tasks[t].completedAt # Null <=> tasks[t].status = "DONE")
  /\ [][\A t \in DOMAIN tasks \cap DOMAIN tasks' :
          tasks'[t].status # tasks[t].status =>
            <<tasks[t].status, tasks'[t].status>> \in TransitionTable]_vars

\* C28, amended: when two updateTask requests on the same task interleave,
\* a save that changes the status stores a status that is a transition of
\* the table from the status that request has read, and a save of a request
\* that changes no status leaves the stored status as it is.  (Measured from
\* the stored status the change may be outside the table, and completedAt
\* may stay set under a status that is not DONE: the last write wins.)
C28Theorem ==
  [][\A q \in inflight \ inflight' :
       hasTask(tasks, q.taskId) =>
         LET before == tasks[q.taskId].status
             after == tasks'[q.taskId].status
         IN IF q.doc.status = q.read.status
              THEN after = before
              ELSE /\ after = q.doc.status
                   /\ <<q.read.status, after>> \in TransitionTable]_vars

\* both requests have saved; the one that read IN_PROGRESS and asked for
\* TODO saved after the one that moved the task to DONE, and the task is
\* stored as TODO with completedAt set
C28Witness ==
  /\ inflight = {}
  /\ last = Result("updateTask", "TODO", "ok")
  /\ \E t \in DOMAIN tasks :
       tasks[t].status = "TODO" /\ tasks[t].completedAt = Date

\* C29: by the addProjectMember and updateProjectMember calls of a requester
\* who has project role MANAGER and is neither ADMIN nor the owner, no user
\* but the owner gets project role OWNER, and so the requester never deletes
\* a task that they did not create.
C29Original ==
  /\ \A p \in DOMAIN projects, n \in Users :
       HasRole(projects[p], n, {"OWNER"}) => n = projects[p].ownerId
  /\ last.op = "deleteTask" => last.res # "ok"

\* C30: on every route that chains two validateRequest middlewares, when the
\* controller runs req.validated holds both the validated params (the
\* project or task id) and the validated body
C30Original ==
  \A req \in inflight :
    (req.route \in ChainedRoutes /\ req.at > middlewares(req.route)) =>
      /\ DOMAIN req.validated = {"params", "body"}
      /\ req.validated.params = req.params
      /\ req.validated.body = req.body

====
